---------------------------- MODULE Spec2Model ----------------------------
(***************************************************************************)
(* A model of the Laskenta symbolic expression library (Laskenta.cpp):     *)
(* the hash-consed, reference-counted expression DAG, its simplifying      *)
(* constructors, attribute inference, cached evaluation and cached         *)
(* symbolic differentiation.                                               *)
(***************************************************************************)
EXTENDS Integers, Sequences, FiniteSets, TLC

(***************************************************************************)
(* Bounds of the model.                                                    *)
(***************************************************************************)
\* largest numerator / denominator of a rational the model represents
MaxNum == 4
\* number of dynamically allocated nodes the heap can hold
MaxNodes == 7
\* number of Expression objects held by the program
MaxHandles == 2
\* largest value of the global dirty counter
MaxDirty == 3
MaxOps == 2

(***************************************************************************)
(* IEEE doubles.  A double is <<n, d, e>>:                                 *)
(*    d > 0 : the finite number (n/d) * K^e, n/d in lowest terms, where    *)
(*            K = 1/sqrt(atan(1)) is irrational and e \in {0, 1};          *)
(*    d = 0 : n = 0 is NaN, n = 1 is +inf, n = -1 is -inf, n = 2 is a      *)
(*            finite number the model cannot represent (Unrep): an action  *)
(*            that produces it is cut off.                                 *)
(* Signed zeros are not distinguished (1/0 is +inf).                       *)
(***************************************************************************)
\* a local of a function: Let([x \in {e} |-> body]) is body with x bound to e
Let(f) == f[CHOOSE x \in DOMAIN f : TRUE]

NaN == <<0, 0, 0>>
PInf == <<1, 0, 0>>
NInf == <<-1, 0, 0>>
Unrep == <<2, 0, 0>>

IAbs(i) == IF i < 0 THEN -i ELSE i

RECURSIVE Gcd(_, _)
Gcd(a, b) == IF b = 0 THEN a ELSE Gcd(b, a % b)

\* the double (n/d) * K^e, normalised; Unrep beyond the representable range
Rat(n, d, e) ==
    IF d = 0 THEN Unrep
    ELSE Let([s \in {IF d < 0 THEN -1 ELSE 1} |->
         Let([g \in {Gcd(IAbs(n), IAbs(d))} |->
         Let([nn \in {(s * n) \div g} |->
         Let([dd \in {(s * d) \div g} |->
             IF IAbs(nn) > MaxNum \/ dd > MaxNum \/ e < 0 \/ e > 1 THEN Unrep
             ELSE IF nn = 0 THEN <<0, 1, 0>> ELSE <<nn, dd, e>>])])])])

Num(i) == Rat(i, 1, 0)

isnan(x) == x = NaN
isinf(x) == x = PInf \/ x = NInf
isunrep(x) == x = Unrep
isfinite(x) == x[2] > 0

\* -1, 0 or 1 for a finite or infinite double
Sgn(x) == IF x[1] > 0 THEN 1 ELSE IF x[1] < 0 THEN -1 ELSE 0

\* millionths of K^e, truncated (K = 1.128379...)
KScale(e) == IF e = 0 THEN 1000000 ELSE 1128379

\* x < y for doubles that are neither NaN nor Unrep
Less(x, y) ==
    IF isinf(x) \/ isinf(y)
    THEN (x = NInf /\ y # NInf) \/ (y = PInf /\ x # PInf)
    ELSE IF x[3] = y[3] THEN x[1] * y[2] < y[1] * x[2]
    ELSE x[1] * y[2] * KScale(x[3]) < y[1] * x[2] * KScale(y[3])

Ordered(x, y) == ~isnan(x) /\ ~isnan(y) /\ ~isunrep(x) /\ ~isunrep(y)
d_lt(x, y) == Ordered(x, y) /\ Less(x, y)
d_le(x, y) == Ordered(x, y) /\ ~Less(y, x)
d_eq(x, y) == Ordered(x, y) /\ x = y

d_neg(x) ==
    IF isnan(x) \/ isunrep(x) THEN x
    ELSE IF isinf(x) THEN <<-x[1], 0, 0>>
    ELSE Rat(-x[1], x[2], x[3])

d_abs(x) == IF Ordered(x, x) /\ Sgn(x) < 0 THEN d_neg(x) ELSE x

d_add(x, y) ==
    IF isnan(x) \/ isnan(y) THEN NaN
    ELSE IF isunrep(x) \/ isunrep(y) THEN Unrep
    ELSE IF isinf(x) THEN (IF isinf(y) /\ x # y THEN NaN ELSE x)
    ELSE IF isinf(y) THEN y
    ELSE IF x[1] = 0 THEN y
    ELSE IF y[1] = 0 THEN x
    ELSE IF x[3] # y[3] THEN Unrep
    ELSE Rat(x[1] * y[2] + y[1] * x[2], x[2] * y[2], x[3])

d_mul(x, y) ==
    IF isnan(x) \/ isnan(y) THEN NaN
    ELSE IF isunrep(x) \/ isunrep(y) THEN Unrep
    ELSE IF isinf(x) \/ isinf(y)
         THEN (IF Sgn(x) * Sgn(y) = 0 THEN NaN ELSE <<Sgn(x) * Sgn(y), 0, 0>>)
    ELSE Rat(x[1] * y[1], x[2] * y[2], x[3] + y[3])

d_inv(x) ==
    IF isnan(x) \/ isunrep(x) THEN x
    ELSE IF isinf(x) THEN Num(0)
    ELSE IF x[1] = 0 THEN PInf
    ELSE IF x[3] # 0 THEN Unrep
    ELSE Rat(x[2], x[1], 0)

d_sub(x, y) == d_add(x, d_neg(y))

d_div(x, y) ==
    IF isnan(x) \/ isnan(y) THEN NaN
    ELSE IF isunrep(x) \/ isunrep(y) THEN Unrep
    ELSE IF isinf(x) /\ isinf(y) THEN NaN
    ELSE IF Sgn(x) = 0 /\ Sgn(y) = 0 THEN NaN
    ELSE IF Sgn(y) = 0 THEN <<Sgn(x), 0, 0>>
    ELSE d_mul(x, d_inv(y))


\* the integer r >= 0 with r^k = i, or -1 when there is none
IRoot(i, k) ==
    Let([R \in {{r \in 0..i : (IF k = 2 THEN r * r ELSE r * r * r) = i}} |->
        IF R = {} THEN -1 ELSE CHOOSE r \in R : TRUE])

\* the exact k-th root (k = 2, 3) of a finite double x >= 0
d_root(x, k) ==
    IF x[3] # 0 THEN Unrep
    ELSE Let([rn \in {IRoot(x[1], k)} |->
         Let([rd \in {IRoot(x[2], k)} |->
             IF rn < 0 \/ rd < 0 THEN Unrep ELSE Rat(rn, rd, 0)])])

d_sqrt(x) ==
    IF isnan(x) \/ isunrep(x) THEN x
    ELSE IF x = PInf THEN PInf
    ELSE IF Sgn(x) < 0 THEN NaN
    ELSE d_root(x, 2)

d_cbrt(x) ==
    IF isnan(x) \/ isunrep(x) \/ isinf(x) THEN x
    ELSE IF Sgn(x) < 0 THEN d_neg(d_root(d_neg(x), 3))
    ELSE d_root(x, 3)

\* a function that is exact only at zero: f(0) = at0, f(-inf) = lo, f(+inf) = hi
AtZero(x, at0, lo, hi) ==
    IF isnan(x) \/ isunrep(x) THEN x
    ELSE IF x = NInf THEN lo
    ELSE IF x = PInf THEN hi
    ELSE IF Sgn(x) = 0 THEN at0
    ELSE Unrep

d_exp(x) == AtZero(x, Num(1), Num(0), PInf)

d_log(x) ==
    IF isnan(x) \/ isunrep(x) THEN x
    ELSE IF x = PInf THEN PInf
    ELSE IF Sgn(x) < 0 THEN NaN
    ELSE IF Sgn(x) = 0 THEN NInf
    ELSE IF x = Num(1) THEN Num(0)
    ELSE Unrep

\* asin, acos, atanh: NaN outside [-1, 1]
d_asin(x) ==
    IF isnan(x) \/ isunrep(x) THEN x
    ELSE IF d_lt(Num(1), d_abs(x)) THEN NaN
    ELSE IF Sgn(x) = 0 THEN Num(0)
    ELSE Unrep

d_acos(x) ==
    IF isnan(x) \/ isunrep(x) THEN x
    ELSE IF d_lt(Num(1), d_abs(x)) THEN NaN
    ELSE IF x = Num(1) THEN Num(0)
    ELSE Unrep

d_atanh(x) ==
    IF isnan(x) \/ isunrep(x) THEN x
    ELSE IF d_lt(Num(1), d_abs(x)) THEN NaN
    ELSE IF x = Num(1) THEN PInf
    ELSE IF x = Num(-1) THEN NInf
    ELSE IF Sgn(x) = 0 THEN Num(0)
    ELSE Unrep

d_acosh(x) ==
    IF isnan(x) \/ isunrep(x) THEN x
    ELSE IF x = PInf THEN PInf
    ELSE IF d_lt(x, Num(1)) THEN NaN
    ELSE IF x = Num(1) THEN Num(0)
    ELSE Unrep

\* x^k for an integer k >= 0, by repeated multiplication
RECURSIVE d_powi(_, _)
d_powi(x, k) == IF k = 0 THEN Num(1) ELSE d_mul(x, d_powi(x, k - 1))

IsInt(y) == isfinite(y) /\ y[2] = 1 /\ y[3] = 0
IsOdd(y) == IsInt(y) /\ y[1] % 2 = 1

\* std::pow
d_pow(x, y) ==
    IF d_eq(y, Num(0)) \/ d_eq(x, Num(1)) THEN Num(1)
    ELSE IF isnan(x) \/ isnan(y) THEN NaN
    ELSE IF isunrep(x) \/ isunrep(y) THEN Unrep
    ELSE IF Sgn(x) = 0 THEN (IF Sgn(y) < 0 THEN PInf ELSE Num(0))
    ELSE IF isinf(y)
         THEN IF x = Num(-1) THEN Num(1)
              ELSE IF d_lt(d_abs(x), Num(1))
                   THEN (IF y = NInf THEN PInf ELSE Num(0))
                   ELSE (IF y = NInf THEN Num(0) ELSE PInf)
    ELSE IF isinf(x)
         THEN IF Sgn(y) < 0 THEN Num(0)
              ELSE IF x = NInf /\ IsOdd(y) THEN NInf ELSE PInf
    ELSE IF IsInt(y)
         THEN IF y[1] > 0 THEN d_powi(x, y[1]) ELSE d_inv(d_powi(x, -y[1]))
    ELSE IF Sgn(x) < 0 THEN NaN
    ELSE IF y[3] = 0 /\ y[2] \in {2, 3}
         THEN Let([r \in {d_root(x, y[2])} |->
                  IF isunrep(r) THEN Unrep
                  ELSE IF y[1] > 0 THEN d_powi(r, y[1]) ELSE d_inv(d_powi(r, -y[1]))])
    ELSE Unrep

\* std::sign
d_sign(x) == IF isnan(x) \/ isunrep(x) THEN x ELSE Num(Sgn(x))

NodeType ==
    {"ABS", "SIGN", "SQRT", "CBRT", "EXP", "LOG", "SIN", "COS", "TAN", "SEC",
     "ASIN", "ACOS", "ATAN", "SINH", "COSH", "TANH", "ASINH", "ACOSH", "ATANH",
     "ERF", "INVERT", "NEGATE", "SQUARE", "XCONIC", "YCONIC", "ZCONIC"}

(***************************************************************************)
(* Calls.  Every call of a function of the library is resolved by one      *)
(* dispatcher, from the name of the function: a virtual member function    *)
(* by the class of the node it is called on, defined further below.        *)
(***************************************************************************)
RECURSIVE dispatch(_, _, _, _)

cmath(fn, x) == dispatch(0, "cmath", fn, x)
Erase(W, p) == dispatch(W, "Erase", p, 0)
guaranteed(W, this, a) == dispatch(W, "guaranteed", this, a)
evaluate(W, this) == dispatch(W, "evaluate", this, 0)
abs(W, this) == dispatch(W, "abs", this, 0)
sign(W, this) == dispatch(W, "sign", this, 0)
sqrt(W, this) == dispatch(W, "sqrt", this, 0)
cbrt(W, this) == dispatch(W, "cbrt", this, 0)
exp(W, this) == dispatch(W, "exp", this, 0)
log(W, this) == dispatch(W, "log", this, 0)
sin(W, this) == dispatch(W, "sin", this, 0)
cos(W, this) == dispatch(W, "cos", this, 0)
tan(W, this) == dispatch(W, "tan", this, 0)
sec(W, this) == dispatch(W, "sec", this, 0)
asin(W, this) == dispatch(W, "asin", this, 0)
acos(W, this) == dispatch(W, "acos", this, 0)
atan(W, this) == dispatch(W, "atan", this, 0)
sinh(W, this) == dispatch(W, "sinh", this, 0)
cosh(W, this) == dispatch(W, "cosh", this, 0)
tanh(W, this) == dispatch(W, "tanh", this, 0)
asinh(W, this) == dispatch(W, "asinh", this, 0)
acosh(W, this) == dispatch(W, "acosh", this, 0)
atanh(W, this) == dispatch(W, "atanh", this, 0)
erf(W, this) == dispatch(W, "erf", this, 0)
invert(W, this) == dispatch(W, "invert", this, 0)
negate(W, this) == dispatch(W, "negate", this, 0)
square(W, this) == dispatch(W, "square", this, 0)
xconic(W, this) == dispatch(W, "xconic", this, 0)
yconic(W, this) == dispatch(W, "yconic", this, 0)
zconic(W, this) == dispatch(W, "zconic", this, 0)
add(W, this, p) == dispatch(W, "add", this, p)
commutative_add(W, this, p) == dispatch(W, "commutative_add", this, p)
mul(W, this, p) == dispatch(W, "mul", this, p)
commutative_mul(W, this, p) == dispatch(W, "commutative_mul", this, p)
pow(W, this, p) == dispatch(W, "pow", this, p)
derive(W, this, r) == dispatch(W, "derive", this, r)

\* what value() of a function node of kind fn computes from its operand's value
cmath_body(fn, x) ==
    CASE fn = "ABS" -> d_abs(x)
      [] fn = "SIGN" -> d_sign(x)
      [] fn = "SQRT" -> d_sqrt(x)
      [] fn = "CBRT" -> d_cbrt(x)
      [] fn = "EXP" -> d_exp(x)
      [] fn = "LOG" -> d_log(x)
      [] fn = "SIN" -> AtZero(x, Num(0), NaN, NaN)
      [] fn = "COS" -> AtZero(x, Num(1), NaN, NaN)
      [] fn = "TAN" -> AtZero(x, Num(0), NaN, NaN)
      [] fn = "SEC" -> d_div(Num(1), AtZero(x, Num(1), NaN, NaN))
      [] fn = "ASIN" -> d_asin(x)
      [] fn = "ACOS" -> d_acos(x)
      [] fn = "ATAN" -> AtZero(x, Num(0), Unrep, Unrep)
      [] fn = "SINH" -> AtZero(x, Num(0), NInf, PInf)
      [] fn = "COSH" -> AtZero(x, Num(1), PInf, PInf)
      [] fn = "TANH" -> AtZero(x, Num(0), Num(-1), Num(1))
      [] fn = "ASINH" -> AtZero(x, Num(0), NInf, PInf)
      [] fn = "ACOSH" -> d_acosh(x)
      [] fn = "ATANH" -> d_atanh(x)
      [] fn = "ERF" -> AtZero(x, Num(0), Num(-1), Num(1))
      [] fn = "INVERT" -> d_div(Num(1), x)
      [] fn = "NEGATE" -> d_neg(x)
      [] fn = "SQUARE" -> d_mul(x, x)
      [] fn = "XCONIC" -> d_sqrt(d_sub(d_mul(x, x), Num(1)))
      [] fn = "YCONIC" -> d_sqrt(d_add(Num(1), d_mul(x, x)))
      [] fn = "ZCONIC" -> d_sqrt(d_sub(Num(1), d_mul(x, x)))

(***************************************************************************)
(* The heap.  A pointer is a node id, 0 is nullptr.  The static nodes      *)
(* occupy the first ids; every other node is allocated by new.  A world W  *)
(* is the whole program state, threaded through the constructors.          *)
(***************************************************************************)
Vars == {"u", "v"}

NullInstance == 1
literal0 == 2
literal1 == 3
literal3 == 4
literal2Inv == 5
literal3Inv == 6
literal1Neg == 7
erfDiffConst == 8

Statics == NullInstance..erfDiffConst
HeapSize == erfDiffConst + MaxNodes
Id == 1..HeapSize

\* Expression::data: the fields of a node (a free cell has type "FREE")
data(t, f, g, n, x, depth) ==
    [type |-> t, f_x |-> f, g_x |-> g, n |-> n, x |-> x, depth |-> depth,
     refs |-> 1, cachedNode |-> 0, cleanLevel |-> 0, valueCache |-> Num(0)]

FreeNode == [data("FREE", 0, 0, Num(0), "", 0) EXCEPT !.refs = 0]

Live(W, p) == p \in Id /\ W.node[p].type # "FREE"

\* std::map / std::unordered_map, as sets of <<owner, key, value>>
MapFind(M, o, k) == {e \in M : e[1] = o /\ e[2] = k}
MapGet(M, o, k) == (CHOOSE e \in MapFind(M, o, k) : TRUE)[3]
MapPut(M, o, k, v) == (M \ MapFind(M, o, k)) \cup {<<o, k, v>>}
MapErase(M, o, k) == M \ MapFind(M, o, k)
MapIs(M, o, k, v) == MapFind(M, o, k) # {} /\ MapGet(M, o, k) = v

\* constantNode.find(d): the keys are compared as doubles, NaN equals nothing
ConstFind(W, d) == {e \in W.constantNode : d_eq(e[1], d)}

Ret(W, r) == [w |-> W, r |-> r]

\* a failed assertion, FAIL or UNREACHABLE ends the program
assert(W, cond, msg) == IF cond \/ W.fail # "" THEN W ELSE [W EXCEPT !.fail = msg]
FAIL(W, msg) == assert(W, FALSE, msg)

\* the model's bounds are exceeded: the run is not followed further
Cut(W) == [W EXCEPT !.cut = TRUE]

Clone(W, p) == [W EXCEPT !.node[p].refs = @ + 1]

\* operator new: the first free cell
FreeIds(W) == {i \in Id \ Statics : W.node[i].type = "FREE"}
NewId(W) == CHOOSE i \in FreeIds(W) : \A j \in FreeIds(W) : i <= j

\* the node's own tables die with it
DropTables(W, p) ==
    [W EXCEPT !.node[p] = FreeNode,
              !.functionNode = {e \in @ : e[1] # p},
              !.addNode = {e \in @ : e[1] # p},
              !.mulNode = {e \in @ : e[1] # p},
              !.powNode = {e \in @ : e[1] # p}]

\* ~ConstantNode, ~VariableNode, ~FunctionNode, ~Add, ~Mul, ~Pow: the
\* assertions and the removal of the node's interning entries
Deregister(W, p) ==
    LET nd == W.node[p]
        f == nd.f_x
        g == nd.g_x
    IN  CASE nd.type = "CONSTANT" ->
               LET W1 == assert(W, ConstFind(W, nd.n) # {}
                                   /\ \A e \in ConstFind(W, nd.n) : e[2] = p,
                                "~ConstantNode")
               IN  [W1 EXCEPT !.constantNode = @ \ ConstFind(W, nd.n)]
          [] nd.type = "VARIABLE" ->
               Let([W1 \in {assert(W, MapIs(W.variableNode, 0, nd.x, p), "~VariableNode")} |->
                   [W1 EXCEPT !.variableNode = MapErase(@, 0, nd.x)]])
          [] nd.type = "ADD" ->
               LET W1 == assert(W, MapIs(W.addNode, f, g, p) /\ MapIs(W.addNode, g, f, p),
                                "~Add")
               IN  [W1 EXCEPT !.addNode = MapErase(MapErase(@, f, g), g, f)]
          [] nd.type = "MUL" ->
               LET W1 == assert(W, MapIs(W.mulNode, f, g, p) /\ MapIs(W.mulNode, g, f, p),
                                "~Mul")
               IN  [W1 EXCEPT !.mulNode = MapErase(MapErase(@, f, g), g, f)]
          [] nd.type = "POW" ->
               Let([W1 \in {assert(W, MapIs(W.powNode, f, g, p), "~Pow")} |->
                   [W1 EXCEPT !.powNode = MapErase(@, f, g)]])
          [] OTHER ->
               Let([W1 \in {assert(W, MapIs(W.functionNode, f, nd.type, p), "~FunctionNode")} |->
                   [W1 EXCEPT !.functionNode = MapErase(@, f, nd.type)]])

\* Erase: drop one reference; the last one deletes the node, whose
\* destructors deregister it and erase its operands
Erase_body(W, p) ==
    IF p = 0 THEN W
    ELSE IF ~Live(W, p) THEN FAIL(W, "Erase of a deleted node")
    ELSE IF W.node[p].refs > 1 THEN [W EXCEPT !.node[p].refs = @ - 1]
    ELSE IF p \in Statics THEN FAIL(W, "delete of a static node")
    ELSE Let([f \in {W.node[p].f_x} |->
         Let([g \in {W.node[p].g_x} |->
         Let([W1 \in {DropTables(Deregister(W, p), p)} |->
             Erase(Erase(W1, f), g)])])])

\* operator new and the base-class constructor
New(W, nd) ==
    IF FreeIds(W) = {} THEN Ret(Cut(W), literal0)
    ELSE Ret([W EXCEPT !.node[NewId(W)] = nd], NewId(W))

\* new ConstantNode(d)
ConstantNode(W, d) ==
    Let([R \in {New(W, data("CONSTANT", 0, 0, d, "", 0))} |->
    Let([W1 \in {assert(R.w, ConstFind(R.w, d) = {}, "ConstantNode")} |->
        Ret([W1 EXCEPT !.constantNode = (@ \ ConstFind(W1, d)) \cup {<<d, R.r>>}], R.r)])])

constant(W, d) ==
    IF isunrep(d) THEN Ret(Cut(W), literal0)
    ELSE IF ConstFind(W, d) # {}
         THEN LET p == (CHOOSE e \in ConstFind(W, d) : TRUE)[2] IN Ret(Clone(W, p), p)
         ELSE ConstantNode(W, d)

\* new VariableNode(r)
VariableNode(W, r) ==
    Let([R \in {New(W, data("VARIABLE", 0, 0, Num(0), r, 1))} |->
    Let([W1 \in {assert(R.w, MapFind(R.w.variableNode, 0, r) = {}, "VariableNode")} |->
        Ret([W1 EXCEPT !.variableNode = MapPut(@, 0, r, R.r)], R.r)])])

variable(W, r) ==
    IF MapFind(W.variableNode, 0, r) # {}
    THEN Ret(Clone(W, MapGet(W.variableNode, 0, r)), MapGet(W.variableNode, 0, r))
    ELSE VariableNode(W, r)

\* new Abs(p), ..., new ZConic(p): the FunctionNode constructor
FunctionNode(W, p, fn) ==
    Let([R \in {New(W, data(fn, p, 0, Num(0), "", W.node[p].depth + 1))} |->
    Let([W1 \in {assert(R.w, MapFind(R.w.functionNode, p, fn) = {}, "FunctionNode")} |->
        Ret([W1 EXCEPT !.functionNode = MapPut(@, p, fn, R.r)], R.r)])])

function(W, this, fn) ==
    IF MapFind(W.functionNode, this, fn) # {}
    THEN Ret(Clone(W, MapGet(W.functionNode, this, fn)), MapGet(W.functionNode, this, fn))
    ELSE FunctionNode(Clone(W, this), this, fn)

Max(a, b) == IF a > b THEN a ELSE b

\* an operator node that takes its depth from its first operand alone
OperatorNode_left(W, t, p, q) ==
    New(W, data(t, p, q, Num(0), "", W.node[p].depth + 1))

\* the OperatorNode constructor
OperatorNode(W, t, p, q) ==
    New(W, data(t, p, q, Num(0), "", Max(W.node[p].depth, W.node[q].depth) + 1))

\* new Add(p, q)
Add(W, p, q) ==
    Let([R \in {OperatorNode(W, "ADD", p, q)} |->
    Let([W1 \in {assert(R.w, MapFind(R.w.addNode, p, q) = {} /\ MapFind(R.w.addNode, q, p) = {},
                         "Add")} |->
        Ret([W1 EXCEPT !.addNode = MapPut(MapPut(@, p, q, R.r), q, p, R.r)], R.r)])])

\* new Mul(p, q)
Mul(W, p, q) ==
    Let([R \in {OperatorNode(W, "MUL", p, q)} |->
    Let([W1 \in {assert(R.w, MapFind(R.w.mulNode, p, q) = {} /\ MapFind(R.w.mulNode, q, p) = {},
                         "Mul")} |->
        Ret([W1 EXCEPT !.mulNode = MapPut(MapPut(@, p, q, R.r), q, p, R.r)], R.r)])])

\* new Pow(p, q)
Pow(W, p, q) ==
    Let([R \in {OperatorNode(W, "POW", p, q)} |->
    Let([W1 \in {assert(R.w, MapFind(R.w.powNode, p, q) = {}, "Pow")} |->
        Ret([W1 EXCEPT !.powNode = MapPut(@, p, q, R.r)], R.r)])])

\* is(NodeType) and is(NodeType, p)
is(W, this, t) == W.node[this].type = t
isOf(W, this, t, p) ==
    CASE W.node[this].type \in NodeType -> W.node[this].type = t /\ W.node[this].f_x = p
      [] W.node[this].type = "VARIABLE" -> t = "VARIABLE" /\ p = this
      [] W.node[this].type = "CONSTANT" -> t = "CONSTANT" /\ p = this
      [] OTHER -> FALSE

(***************************************************************************)
(* guaranteed(): attribute inference.                                      *)
(***************************************************************************)
Attribute ==
    {"DEFINED", "NONZERO", "POSITIVE", "NEGATIVE", "NONPOSITIVE", "NONNEGATIVE",
     "UNITRANGE", "ANTIUNITRANGE", "OPENUNITRANGE", "ANTIOPENUNITRANGE",
     "CONTINUOUS", "INCREASING", "DECREASING", "NONINCREASING", "NONDECREASING",
     "BOUNDEDABOVE", "BOUNDEDBELOW"}


\* ConstantNode::guaranteed
ConstantNode_guaranteed(W, this, a) ==
    LET n == W.node[this].n
    IN  (~isnan(n) /\ ~isinf(n)) /\
        CASE a \in {"DEFINED", "CONTINUOUS", "NONINCREASING", "NONDECREASING",
                    "BOUNDEDABOVE", "BOUNDEDBELOW"} -> TRUE
          [] a = "NONZERO" -> ~d_eq(n, Num(0))
          [] a = "POSITIVE" -> d_lt(Num(0), n)
          [] a = "NEGATIVE" -> d_lt(n, Num(0))
          [] a = "NONPOSITIVE" -> d_le(n, Num(0))
          [] a = "NONNEGATIVE" -> d_le(Num(0), n)
          [] a = "UNITRANGE" -> d_le(Num(-1), n) /\ d_le(n, Num(1))
          [] a = "ANTIUNITRANGE" -> d_lt(n, Num(-1)) \/ d_lt(Num(1), n)
          [] a = "OPENUNITRANGE" -> d_lt(Num(-1), n) /\ d_lt(n, Num(1))
          [] a = "ANTIOPENUNITRANGE" -> d_le(n, Num(-1)) \/ d_le(Num(1), n)
          [] OTHER -> FALSE

\* VariableNode::guaranteed
VariableNode_guaranteed(W, this, a) ==
    CASE a \in {"DEFINED", "CONTINUOUS", "INCREASING", "NONDECREASING"} -> TRUE
      [] OTHER -> FALSE

\* Abs::guaranteed
Abs_guaranteed(W, this, a) ==
    LET F(b) == guaranteed(W, W.node[this].f_x, b)
    IN  (F("DEFINED")) /\
        CASE a \in {"DEFINED", "NONNEGATIVE", "BOUNDEDBELOW"} -> TRUE
          [] a \in {"NONZERO", "UNITRANGE", "ANTIUNITRANGE", "OPENUNITRANGE",
                    "ANTIOPENUNITRANGE", "CONTINUOUS"} -> F(a)
          [] a = "POSITIVE" -> F("NONZERO")
          [] a = "INCREASING" ->
               (F("INCREASING") /\ F("POSITIVE")) \/ (F("DECREASING") /\ F("NEGATIVE"))
          [] a = "DECREASING" ->
               (F("DECREASING") /\ F("POSITIVE")) \/ (F("INCREASING") /\ F("NEGATIVE"))
          [] a = "NONINCREASING" ->
               (F("NONINCREASING") /\ F("NONNEGATIVE"))
               \/ (F("NONDECREASING") /\ F("NONPOSITIVE"))
          [] a = "NONDECREASING" ->
               (F("NONDECREASING") /\ F("NONNEGATIVE"))
               \/ (F("NONINCREASING") /\ F("NONPOSITIVE"))
          [] a = "BOUNDEDABOVE" -> F("BOUNDEDABOVE") /\ F("BOUNDEDBELOW")
          [] OTHER -> FALSE

\* Sign::guaranteed
Sign_guaranteed(W, this, a) ==
    LET F(b) == guaranteed(W, W.node[this].f_x, b)
    IN  (F("DEFINED")) /\
        CASE a \in {"DEFINED", "UNITRANGE", "BOUNDEDABOVE", "BOUNDEDBELOW"} -> TRUE
          [] a \in {"NONZERO", "POSITIVE", "NEGATIVE", "NONPOSITIVE", "NONNEGATIVE"} -> F(a)
          [] a = "ANTIOPENUNITRANGE" -> F("NONZERO")
          [] a = "CONTINUOUS" -> F("POSITIVE") \/ F("NEGATIVE")
          [] a = "NONINCREASING" -> F("NONINCREASING") \/ F("POSITIVE") \/ F("NEGATIVE")
          [] a = "NONDECREASING" -> F("NONDECREASING") \/ F("POSITIVE") \/ F("NEGATIVE")
          [] OTHER -> FALSE

\* Sqrt::guaranteed
Sqrt_guaranteed(W, this, a) ==
    LET F(b) == guaranteed(W, W.node[this].f_x, b)
    IN  (F("NONNEGATIVE")) /\
        CASE a \in {"DEFINED", "NONNEGATIVE", "BOUNDEDBELOW"} -> TRUE
          [] a \in {"NONZERO", "POSITIVE", "UNITRANGE", "ANTIUNITRANGE",
                    "OPENUNITRANGE", "ANTIOPENUNITRANGE", "CONTINUOUS", "INCREASING",
                    "DECREASING", "NONINCREASING", "NONDECREASING", "BOUNDEDABOVE"} -> F(a)
          [] OTHER -> FALSE

\* Cbrt::guaranteed
Cbrt_guaranteed(W, this, a) ==
    LET F(b) == guaranteed(W, W.node[this].f_x, b)
    IN  (F("DEFINED")) /\
        CASE a = "DEFINED" -> TRUE
          [] a \in {"NONZERO", "POSITIVE", "NEGATIVE", "NONPOSITIVE", "NONNEGATIVE",
                    "UNITRANGE", "ANTIUNITRANGE", "OPENUNITRANGE", "ANTIOPENUNITRANGE",
                    "CONTINUOUS", "INCREASING", "DECREASING", "NONINCREASING",
                    "NONDECREASING", "BOUNDEDABOVE", "BOUNDEDBELOW"} -> F(a)
          [] OTHER -> FALSE

\* Exp::guaranteed
Exp_guaranteed(W, this, a) ==
    LET F(b) == guaranteed(W, W.node[this].f_x, b)
    IN  (F("DEFINED")) /\
        CASE a \in {"DEFINED", "NONZERO", "POSITIVE", "NONNEGATIVE", "BOUNDEDBELOW"} -> TRUE
          [] a \in {"CONTINUOUS", "INCREASING", "DECREASING", "NONINCREASING",
                    "NONDECREASING", "BOUNDEDABOVE"} -> F(a)
          [] a = "UNITRANGE" -> F("NONPOSITIVE")
          [] a = "ANTIUNITRANGE" -> F("POSITIVE")
          [] a = "OPENUNITRANGE" -> F("NEGATIVE")
          [] a = "ANTIOPENUNITRANGE" -> F("NONNEGATIVE")
          [] OTHER -> FALSE

\* Log::guaranteed
Log_guaranteed(W, this, a) ==
    LET F(b) == guaranteed(W, W.node[this].f_x, b)
    IN  (F("POSITIVE")) /\
        CASE a = "DEFINED" -> TRUE
          [] a \in {"CONTINUOUS", "INCREASING", "DECREASING", "NONINCREASING",
                    "NONDECREASING", "BOUNDEDABOVE"} -> F(a)
          [] a = "NONZERO" -> F("ANTIUNITRANGE") \/ F("OPENUNITRANGE")
          [] a = "POSITIVE" -> F("ANTIUNITRANGE")
          [] a = "NEGATIVE" -> F("OPENUNITRANGE")
          [] a = "NONPOSITIVE" -> F("UNITRANGE")
          [] a = "NONNEGATIVE" -> F("ANTIOPENUNITRANGE")
          [] OTHER -> FALSE

\* Sin::guaranteed
Sin_guaranteed(W, this, a) ==
    LET F(b) == guaranteed(W, W.node[this].f_x, b)
    IN  (F("DEFINED")) /\
        CASE a \in {"DEFINED", "UNITRANGE", "BOUNDEDABOVE", "BOUNDEDBELOW"} -> TRUE
          [] a = "CONTINUOUS" -> F(a)
          [] OTHER -> FALSE

\* Cos::guaranteed
Cos_guaranteed(W, this, a) ==
    LET F(b) == guaranteed(W, W.node[this].f_x, b)
    IN  (F("DEFINED")) /\
        CASE a \in {"DEFINED", "UNITRANGE", "BOUNDEDABOVE", "BOUNDEDBELOW"} -> TRUE
          [] a = "CONTINUOUS" -> F(a)
          [] OTHER -> FALSE

\* Tan::guaranteed
Tan_guaranteed(W, this, a) ==
    LET F(b) == guaranteed(W, W.node[this].f_x, b)
    IN  (F("DEFINED")) /\
        CASE a = "DEFINED" -> TRUE
          [] OTHER -> FALSE

\* Sec::guaranteed
Sec_guaranteed(W, this, a) ==
    FALSE

\* ASin::guaranteed
ASin_guaranteed(W, this, a) ==
    LET F(b) == guaranteed(W, W.node[this].f_x, b)
    IN  (F("UNITRANGE")) /\
        CASE a \in {"DEFINED", "BOUNDEDABOVE", "BOUNDEDBELOW"} -> TRUE
          [] a \in {"NONZERO", "POSITIVE", "NEGATIVE", "NONPOSITIVE", "NONNEGATIVE",
                    "CONTINUOUS", "INCREASING", "DECREASING", "NONINCREASING",
                    "NONDECREASING"} -> F(a)
          [] OTHER -> FALSE

\* ACos::guaranteed
ACos_guaranteed(W, this, a) ==
    LET F(b) == guaranteed(W, W.node[this].f_x, b)
    IN  (F("UNITRANGE")) /\
        CASE a \in {"DEFINED", "NONNEGATIVE", "BOUNDEDABOVE", "BOUNDEDBELOW"} -> TRUE
          [] a = "CONTINUOUS" -> F(a)
          [] a \in {"NONZERO", "POSITIVE"} -> F("OPENUNITRANGE")
          [] a = "NONPOSITIVE" -> F("POSITIVE") /\ F("ANTIOPENUNITRANGE")
          [] a = "INCREASING" -> F("DECREASING")
          [] a = "DECREASING" -> F("INCREASING")
          [] a = "NONINCREASING" -> F("NONDECREASING")
          [] a = "NONDECREASING" -> F("NONINCREASING")
          [] OTHER -> FALSE

\* ATan::guaranteed
ATan_guaranteed(W, this, a) ==
    LET F(b) == guaranteed(W, W.node[this].f_x, b)
    IN  (F("DEFINED")) /\
        CASE a \in {"DEFINED", "BOUNDEDABOVE", "BOUNDEDBELOW"} -> TRUE
          [] a \in {"NONZERO", "POSITIVE", "NEGATIVE", "NONPOSITIVE", "NONNEGATIVE",
                    "CONTINUOUS", "INCREASING", "DECREASING", "NONINCREASING",
                    "NONDECREASING"} -> F(a)
          [] OTHER -> FALSE

\* SinH::guaranteed
SinH_guaranteed(W, this, a) ==
    LET F(b) == guaranteed(W, W.node[this].f_x, b)
    IN  (F("DEFINED")) /\
        CASE a = "DEFINED" -> TRUE
          [] a \in {"NONZERO", "POSITIVE", "NEGATIVE", "NONPOSITIVE", "NONNEGATIVE",
                    "CONTINUOUS", "INCREASING", "DECREASING", "NONINCREASING",
                    "NONDECREASING", "BOUNDEDABOVE", "BOUNDEDBELOW"} -> F(a)
          [] OTHER -> FALSE

\* CosH::guaranteed
CosH_guaranteed(W, this, a) ==
    LET F(b) == guaranteed(W, W.node[this].f_x, b)
    IN  (F("DEFINED")) /\
        CASE a \in {"DEFINED", "NONZERO", "POSITIVE", "NONNEGATIVE",
                    "ANTIOPENUNITRANGE", "BOUNDEDBELOW"} -> TRUE
          [] a = "CONTINUOUS" -> F(a)
          [] a = "ANTIUNITRANGE" -> F("NONZERO")
          [] a = "INCREASING" ->
               (F("INCREASING") /\ F("POSITIVE")) \/ (F("DECREASING") /\ F("NEGATIVE"))
          [] a = "DECREASING" ->
               (F("DECREASING") /\ F("POSITIVE")) \/ (F("INCREASING") /\ F("NEGATIVE"))
          [] a = "NONINCREASING" ->
               (F("NONINCREASING") /\ F("NONNEGATIVE"))
               \/ (F("NONDECREASING") /\ F("NONPOSITIVE"))
          [] a = "NONDECREASING" ->
               (F("NONDECREASING") /\ F("NONNEGATIVE"))
               \/ (F("NONINCREASING") /\ F("NONPOSITIVE"))
          [] a = "BOUNDEDABOVE" -> F("BOUNDEDABOVE") /\ F("BOUNDEDBELOW")
          [] OTHER -> FALSE

\* TanH::guaranteed
TanH_guaranteed(W, this, a) ==
    LET F(b) == guaranteed(W, W.node[this].f_x, b)
    IN  (F("DEFINED")) /\
        CASE a \in {"DEFINED", "UNITRANGE", "OPENUNITRANGE", "BOUNDEDABOVE",
                    "BOUNDEDBELOW"} -> TRUE
          [] a \in {"NONZERO", "POSITIVE", "NEGATIVE", "NONPOSITIVE", "NONNEGATIVE",
                    "CONTINUOUS", "INCREASING", "DECREASING", "NONINCREASING",
                    "NONDECREASING"} -> F(a)
          [] OTHER -> FALSE

\* ASinH::guaranteed
ASinH_guaranteed(W, this, a) ==
    LET F(b) == guaranteed(W, W.node[this].f_x, b)
    IN  (F("DEFINED")) /\
        CASE a = "DEFINED" -> TRUE
          [] a \in {"NONZERO", "POSITIVE", "NEGATIVE", "NONPOSITIVE", "NONNEGATIVE",
                    "CONTINUOUS", "INCREASING", "DECREASING", "NONINCREASING",
                    "NONDECREASING", "BOUNDEDABOVE", "BOUNDEDBELOW"} -> F(a)
          [] OTHER -> FALSE

\* ACosH::guaranteed
ACosH_guaranteed(W, this, a) ==
    LET F(b) == guaranteed(W, W.node[this].f_x, b)
    IN  (F("POSITIVE") /\ F("ANTIOPENUNITRANGE")) /\
        CASE a \in {"DEFINED", "NONNEGATIVE", "BOUNDEDBELOW"} -> TRUE
          [] a \in {"CONTINUOUS", "INCREASING", "DECREASING", "NONINCREASING",
                    "NONDECREASING", "BOUNDEDABOVE"} -> F(a)
          [] a \in {"NONZERO", "POSITIVE"} -> F("ANTIUNITRANGE")
          [] OTHER -> FALSE

\* ATanH::guaranteed
ATanH_guaranteed(W, this, a) ==
    LET F(b) == guaranteed(W, W.node[this].f_x, b)
    IN  (F("OPENUNITRANGE")) /\
        CASE a = "DEFINED" -> TRUE
          [] a \in {"NONZERO", "POSITIVE", "NEGATIVE", "NONPOSITIVE", "NONNEGATIVE",
                    "CONTINUOUS", "INCREASING", "DECREASING", "NONINCREASING",
                    "NONDECREASING"} -> F(a)
          [] OTHER -> FALSE

\* Erf::guaranteed
Erf_guaranteed(W, this, a) ==
    LET F(b) == guaranteed(W, W.node[this].f_x, b)
    IN  (F("DEFINED")) /\
        CASE a \in {"DEFINED", "UNITRANGE", "OPENUNITRANGE", "BOUNDEDABOVE",
                    "BOUNDEDBELOW"} -> TRUE
          [] a \in {"NONZERO", "POSITIVE", "NEGATIVE", "NONPOSITIVE", "NONNEGATIVE",
                    "CONTINUOUS", "INCREASING", "DECREASING", "NONINCREASING",
                    "NONDECREASING"} -> F(a)
          [] OTHER -> FALSE

\* Invert::guaranteed
Invert_guaranteed(W, this, a) ==
    LET F(b) == guaranteed(W, W.node[this].f_x, b)
    IN  (F("NONZERO")) /\
        CASE a \in {"DEFINED", "NONZERO"} -> TRUE
          [] a \in {"POSITIVE", "NEGATIVE", "NONPOSITIVE", "NONNEGATIVE"} -> F(a)
          [] a = "UNITRANGE" -> F("ANTIOPENUNITRANGE")
          [] a = "ANTIUNITRANGE" -> F("OPENUNITRANGE")
          [] a = "OPENUNITRANGE" -> F("ANTIUNITRANGE")
          [] a = "ANTIOPENUNITRANGE" -> F("UNITRANGE")
          [] a = "CONTINUOUS" -> F("POSITIVE") \/ F("NEGATIVE")
          [] a = "INCREASING" -> F("DECREASING") /\ (F("POSITIVE") \/ F("NEGATIVE"))
          [] a = "DECREASING" -> F("INCREASING") /\ (F("POSITIVE") \/ F("NEGATIVE"))
          [] a = "NONINCREASING" -> F("NONDECREASING") /\ (F("POSITIVE") \/ F("NEGATIVE"))
          [] a = "NONDECREASING" -> F("NONINCREASING") /\ (F("POSITIVE") \/ F("NEGATIVE"))
          [] OTHER -> FALSE

\* Negate::guaranteed
Negate_guaranteed(W, this, a) ==
    LET F(b) == guaranteed(W, W.node[this].f_x, b)
    IN  (F("DEFINED")) /\
        CASE a = "DEFINED" -> TRUE
          [] a \in {"NONZERO", "UNITRANGE", "ANTIUNITRANGE", "OPENUNITRANGE",
                    "ANTIOPENUNITRANGE", "CONTINUOUS"} -> F(a)
          [] a = "POSITIVE" -> F("NEGATIVE")
          [] a = "NEGATIVE" -> F("POSITIVE")
          [] a = "NONPOSITIVE" -> F("NONNEGATIVE")
          [] a = "NONNEGATIVE" -> F("NONPOSITIVE")
          [] a = "INCREASING" -> F("DECREASING")
          [] a = "DECREASING" -> F("INCREASING")
          [] a = "NONINCREASING" -> F("NONDECREASING")
          [] a = "NONDECREASING" -> F("NONINCREASING")
          [] a = "BOUNDEDABOVE" -> F("BOUNDEDBELOW")
          [] a = "BOUNDEDBELOW" -> F("BOUNDEDABOVE")
          [] OTHER -> FALSE

\* Square::guaranteed
Square_guaranteed(W, this, a) ==
    LET F(b) == guaranteed(W, W.node[this].f_x, b)
    IN  (F("DEFINED")) /\
        CASE a \in {"DEFINED", "NONNEGATIVE", "BOUNDEDBELOW"} -> TRUE
          [] a \in {"NONZERO", "UNITRANGE", "ANTIUNITRANGE", "OPENUNITRANGE",
                    "ANTIOPENUNITRANGE", "CONTINUOUS"} -> F(a)
          [] a = "POSITIVE" -> F("NONZERO")
          [] a = "INCREASING" ->
               (F("INCREASING") /\ F("POSITIVE")) \/ (F("DECREASING") /\ F("NEGATIVE"))
          [] a = "DECREASING" ->
               (F("DECREASING") /\ F("POSITIVE")) \/ (F("INCREASING") /\ F("NEGATIVE"))
          [] a = "NONINCREASING" ->
               (F("NONINCREASING") /\ F("NONNEGATIVE"))
               \/ (F("NONDECREASING") /\ F("NONPOSITIVE"))
          [] a = "NONDECREASING" ->
               (F("NONDECREASING") /\ F("NONNEGATIVE"))
               \/ (F("NONINCREASING") /\ F("NONPOSITIVE"))
          [] a = "BOUNDEDABOVE" -> F("BOUNDEDABOVE") /\ F("BOUNDEDBELOW")
          [] OTHER -> FALSE

\* XConic::guaranteed
XConic_guaranteed(W, this, a) ==
    LET F(b) == guaranteed(W, W.node[this].f_x, b)
    IN  (F("POSITIVE") /\ F("ANTIOPENUNITRANGE")) /\
        CASE a \in {"DEFINED", "NONNEGATIVE", "BOUNDEDBELOW"} -> TRUE
          [] a \in {"CONTINUOUS", "INCREASING", "DECREASING", "NONINCREASING",
                    "NONDECREASING", "BOUNDEDABOVE"} -> F(a)
          [] a \in {"NONZERO", "POSITIVE"} -> F("ANTIUNITRANGE")
          [] OTHER -> FALSE

\* YConic::guaranteed
YConic_guaranteed(W, this, a) ==
    LET F(b) == guaranteed(W, W.node[this].f_x, b)
    IN  (F("DEFINED")) /\
        CASE a \in {"DEFINED", "NONZERO", "POSITIVE", "NONNEGATIVE",
                    "ANTIOPENUNITRANGE", "BOUNDEDBELOW"} -> TRUE
          [] a = "CONTINUOUS" -> F(a)
          [] a = "ANTIUNITRANGE" -> F("NONZERO")
          [] a = "INCREASING" ->
               (F("INCREASING") /\ F("POSITIVE")) \/ (F("DECREASING") /\ F("NEGATIVE"))
          [] a = "DECREASING" ->
               (F("DECREASING") /\ F("POSITIVE")) \/ (F("INCREASING") /\ F("NEGATIVE"))
          [] a = "NONINCREASING" ->
               (F("NONINCREASING") /\ F("NONNEGATIVE"))
               \/ (F("NONDECREASING") /\ F("NONPOSITIVE"))
          [] a = "NONDECREASING" ->
               (F("NONDECREASING") /\ F("NONNEGATIVE"))
               \/ (F("NONINCREASING") /\ F("NONPOSITIVE"))
          [] a = "BOUNDEDABOVE" -> F("BOUNDEDABOVE") /\ F("BOUNDEDBELOW")
          [] OTHER -> FALSE

\* ZConic::guaranteed
ZConic_guaranteed(W, this, a) ==
    LET F(b) == guaranteed(W, W.node[this].f_x, b)
    IN  (F("UNITRANGE")) /\
        CASE a \in {"DEFINED", "NONNEGATIVE", "UNITRANGE", "BOUNDEDABOVE",
                    "BOUNDEDBELOW"} -> TRUE
          [] a = "CONTINUOUS" -> F(a)
          [] a \in {"NONZERO", "POSITIVE"} -> F("OPENUNITRANGE")
          [] a = "NONPOSITIVE" -> F("ANTIOPENUNITRANGE")
          [] a = "OPENUNITRANGE" -> F("NONZERO")
          [] a = "INCREASING" ->
               (F("INCREASING") /\ F("NEGATIVE")) \/ (F("DECREASING") /\ F("POSITIVE"))
          [] a = "DECREASING" ->
               (F("DECREASING") /\ F("NEGATIVE")) \/ (F("INCREASING") /\ F("POSITIVE"))
          [] a = "NONINCREASING" ->
               (F("NONINCREASING") /\ F("NONPOSITIVE"))
               \/ (F("NONDECREASING") /\ F("NONNEGATIVE"))
          [] a = "NONDECREASING" ->
               (F("NONDECREASING") /\ F("NONPOSITIVE"))
               \/ (F("NONINCREASING") /\ F("NONNEGATIVE"))
          [] OTHER -> FALSE

\* Add::guaranteed
Add_guaranteed(W, this, a) ==
    LET F(b) == guaranteed(W, W.node[this].f_x, b)
        G(b) == guaranteed(W, W.node[this].g_x, b)
    IN  (F("DEFINED") /\ G("DEFINED")) /\
        CASE a = "DEFINED" -> TRUE
          [] a = "NONZERO" ->
               (F("POSITIVE") /\ G("NONNEGATIVE")) \/ (F("NEGATIVE") /\ G("NONPOSITIVE"))
               \/ (F("NONPOSITIVE") /\ G("NEGATIVE")) \/ (F("NONNEGATIVE") /\ G("POSITIVE"))
          [] a = "POSITIVE" ->
               (F("POSITIVE") /\ G("NONNEGATIVE")) \/ (F("NONNEGATIVE") /\ G("POSITIVE"))
          [] a = "NEGATIVE" ->
               (F("NEGATIVE") /\ G("NONPOSITIVE")) \/ (F("NONPOSITIVE") /\ G("NEGATIVE"))
          [] a = "NONPOSITIVE" -> F(a) /\ G(a)
          [] a = "NONNEGATIVE" -> F(a) /\ G(a)
          [] a = "CONTINUOUS" -> F(a) /\ G(a)
          [] a = "INCREASING" ->
               (F("INCREASING") /\ G("NONDECREASING"))
               \/ (F("NONDECREASING") /\ G("INCREASING"))
          [] a = "DECREASING" ->
               (F("DECREASING") /\ G("NONINCREASING"))
               \/ (F("NONINCREASING") /\ G("DECREASING"))
          [] a = "NONINCREASING" -> F(a) /\ G(a)
          [] a = "NONDECREASING" -> F(a) /\ G(a)
          [] a = "BOUNDEDABOVE" -> F(a) /\ G(a)
          [] a = "BOUNDEDBELOW" -> F(a) /\ G(a)
          [] OTHER -> FALSE

\* Mul::guaranteed
Mul_guaranteed(W, this, a) ==
    LET F(b) == guaranteed(W, W.node[this].f_x, b)
        G(b) == guaranteed(W, W.node[this].g_x, b)
    IN  (F("DEFINED") /\ G("DEFINED")) /\
        CASE a = "DEFINED" -> TRUE
          [] a = "NONZERO" -> F(a) /\ G(a)
          [] a = "POSITIVE" ->
               (F("POSITIVE") /\ G("POSITIVE")) \/ (F("NEGATIVE") /\ G("NEGATIVE"))
          [] a = "NEGATIVE" ->
               (F("POSITIVE") /\ G("NEGATIVE")) \/ (F("NEGATIVE") /\ G("POSITIVE"))
          [] a = "UNITRANGE" -> F(a) /\ G(a)
          [] a = "ANTIUNITRANGE" -> F(a) /\ G(a)
          [] a = "OPENUNITRANGE" -> F(a) /\ G(a)
          [] a = "ANTIOPENUNITRANGE" -> F(a) /\ G(a)
          [] a = "CONTINUOUS" -> F(a) /\ G(a)
          [] OTHER -> FALSE

\* Pow::guaranteed
Pow_guaranteed(W, this, a) ==
    LET F(b) == guaranteed(W, W.node[this].f_x, b)
        G(b) == guaranteed(W, W.node[this].g_x, b)
    IN  (F("POSITIVE") /\ G("DEFINED")) /\
        CASE a \in {"DEFINED", "NONZERO", "POSITIVE", "NONNEGATIVE"} -> TRUE
          [] a = "CONTINUOUS" -> F(a) /\ G(a)
          [] OTHER -> FALSE

\* the dispatch call p->guaranteed(a); NullExpression::guaranteed is false
guaranteed_body(W, this, a) ==
    LET t == W.node[this].type
    IN  CASE t = "CONSTANT" -> ConstantNode_guaranteed(W, this, a)
          [] t = "VARIABLE" -> VariableNode_guaranteed(W, this, a)
          [] t = "ABS" -> Abs_guaranteed(W, this, a)
          [] t = "SIGN" -> Sign_guaranteed(W, this, a)
          [] t = "SQRT" -> Sqrt_guaranteed(W, this, a)
          [] t = "CBRT" -> Cbrt_guaranteed(W, this, a)
          [] t = "EXP" -> Exp_guaranteed(W, this, a)
          [] t = "LOG" -> Log_guaranteed(W, this, a)
          [] t = "SIN" -> Sin_guaranteed(W, this, a)
          [] t = "COS" -> Cos_guaranteed(W, this, a)
          [] t = "TAN" -> Tan_guaranteed(W, this, a)
          [] t = "SEC" -> Sec_guaranteed(W, this, a)
          [] t = "ASIN" -> ASin_guaranteed(W, this, a)
          [] t = "ACOS" -> ACos_guaranteed(W, this, a)
          [] t = "ATAN" -> ATan_guaranteed(W, this, a)
          [] t = "SINH" -> SinH_guaranteed(W, this, a)
          [] t = "COSH" -> CosH_guaranteed(W, this, a)
          [] t = "TANH" -> TanH_guaranteed(W, this, a)
          [] t = "ASINH" -> ASinH_guaranteed(W, this, a)
          [] t = "ACOSH" -> ACosH_guaranteed(W, this, a)
          [] t = "ATANH" -> ATanH_guaranteed(W, this, a)
          [] t = "ERF" -> Erf_guaranteed(W, this, a)
          [] t = "INVERT" -> Invert_guaranteed(W, this, a)
          [] t = "NEGATE" -> Negate_guaranteed(W, this, a)
          [] t = "SQUARE" -> Square_guaranteed(W, this, a)
          [] t = "XCONIC" -> XConic_guaranteed(W, this, a)
          [] t = "YCONIC" -> YConic_guaranteed(W, this, a)
          [] t = "ZCONIC" -> ZConic_guaranteed(W, this, a)
          [] t = "ADD" -> Add_guaranteed(W, this, a)
          [] t = "MUL" -> Mul_guaranteed(W, this, a)
          [] t = "POW" -> Pow_guaranteed(W, this, a)
          [] OTHER -> FALSE

(***************************************************************************)
(* value() and evaluate(): the cached evaluation.                          *)
(***************************************************************************)

\* the dispatch call this->value()
value(W, this) ==
    LET t == W.node[this].type
        f_x == W.node[this].f_x
        g_x == W.node[this].g_x
    IN  CASE t = "CONSTANT" -> Ret(W, W.node[this].n)
          [] t = "VARIABLE" -> Ret(W, W.val[W.node[this].x])
          [] t = "ADD" ->
               Let([x \in {evaluate(W, f_x)} |->
               Let([y \in {evaluate(x.w, g_x)} |->
                   Ret(y.w, d_add(x.r, y.r))])])
          [] t = "MUL" ->
               Let([x \in {evaluate(W, f_x)} |->
               Let([y \in {evaluate(x.w, g_x)} |->
                   IF d_eq(x.r, Num(0)) THEN Ret(x.w, Num(0))
                   ELSE IF d_eq(y.r, Num(0)) THEN Ret(y.w, Num(0))
                   ELSE Ret(y.w, d_mul(x.r, y.r))])])
          [] t = "POW" ->
               Let([x \in {evaluate(W, f_x)} |->
               Let([y \in {evaluate(x.w, g_x)} |->
                   Ret(y.w, d_pow(x.r, y.r))])])
          [] t = "NULL" ->
               Ret(FAIL(W, "Attempt was made to evaluate uninitialized Expression object"),
                   NaN)
          [] OTHER ->
               Let([x \in {evaluate(W, f_x)} |->
                   Ret(x.w, cmath(t, x.r))])

\* Expression::data::evaluate
evaluate_body(W, this) ==
    IF W.node[this].cleanLevel # W.dirtyLevel
    THEN Let([v \in {value(W, this)} |->
         Let([W1 \in {IF isunrep(v.r) THEN Cut(v.w) ELSE v.w} |->
             Ret([W1 EXCEPT !.node[this].valueCache = v.r,
                            !.node[this].cleanLevel = W.dirtyLevel], v.r)])])
    ELSE Ret(W, W.node[this].valueCache)

(***************************************************************************)
(* The simplifying constructors.                                           *)
(***************************************************************************)
STACK_LIMIT == 10000

RECURSIVE easyInvert(_, _)
easyInvert(W, this) ==
    CASE W.node[this].type = "CONSTANT" -> ~d_eq(W.node[this].n, Num(0))
      [] W.node[this].type = "INVERT" -> TRUE
      [] W.node[this].type = "NEGATE" -> easyInvert(W, W.node[this].f_x)
      [] OTHER -> FALSE

easyNegate(W, this) == W.node[this].type \in {"CONSTANT", "NEGATE"}

\* Invert::easyNegate reaches UNREACHABLE when its operand is easy to negate
easyNegate_UNREACHABLE(W, this) ==
    W.node[this].type = "INVERT" /\ easyNegate(W, W.node[this].f_x)


\* Expression::data::abs
data_abs(W, this) ==
    IF guaranteed(W, this, "NONNEGATIVE")
    THEN Ret(Clone(W, this), this)
    ELSE IF guaranteed(W, this, "NONPOSITIVE")
         THEN negate(W, this)
         ELSE function(W, this, "ABS")

\* the dispatch call this->abs(): the override of the node's class
abs_body(W, this) ==
    LET t == W.node[this].type
        f_x == W.node[this].f_x
        g_x == W.node[this].g_x
        n == W.node[this].n
    IN  CASE t = "CONSTANT" ->  \* ConstantNode::abs
               constant(W, cmath("ABS", n))
          [] t = "ABS" ->  \* Abs::abs
               Ret(Clone(W, this), this)
          [] t = "SQRT" ->  \* Sqrt::abs
               Ret(Clone(W, this), this)
          [] t = "EXP" ->  \* Exp::abs
               Ret(Clone(W, this), this)
          [] t = "ACOS" ->  \* ACos::abs
               Ret(Clone(W, this), this)
          [] t = "COSH" ->  \* CosH::abs
               Ret(Clone(W, this), this)
          [] t = "ACOSH" ->  \* ACosH::abs
               Ret(Clone(W, this), this)
          [] t = "INVERT" ->  \* Invert::abs
               Let([step0 \in {abs(W, f_x)} |->
               Let([step1 \in {invert(step0.w, step0.r)} |->
               Let([W1 \in {Erase(step1.w, step0.r)} |->
                   Ret(W1, step1.r)])])])
          [] t = "NEGATE" ->  \* Negate::abs
               abs(W, f_x)
          [] t = "SQUARE" ->  \* Square::abs
               Ret(Clone(W, this), this)
          [] t = "XCONIC" ->  \* XConic::abs
               Ret(Clone(W, this), this)
          [] t = "YCONIC" ->  \* YConic::abs
               Ret(Clone(W, this), this)
          [] t = "ZCONIC" ->  \* ZConic::abs
               Ret(Clone(W, this), this)
          [] OTHER -> data_abs(W, this)

\* Expression::data::sign
data_sign(W, this) ==
    IF guaranteed(W, this, "POSITIVE")
    THEN Ret(Clone(W, literal1), literal1)
    ELSE IF guaranteed(W, this, "NEGATIVE")
         THEN Ret(Clone(W, literal1Neg), literal1Neg)
         ELSE function(W, this, "SIGN")

\* the dispatch call this->sign(): the override of the node's class
sign_body(W, this) ==
    LET t == W.node[this].type
        f_x == W.node[this].f_x
        g_x == W.node[this].g_x
        n == W.node[this].n
    IN  CASE t = "CONSTANT" ->  \* ConstantNode::sign
               constant(W, Num((IF d_lt(Num(0), n) THEN 1 ELSE 0) - (IF d_lt(n, Num(0)) THEN 1 ELSE 0)))
          [] t = "ABS" ->  \* Abs::sign
               Let([step0 \in {sign(W, f_x)} |->
               Let([step1 \in {abs(step0.w, step0.r)} |->
               Let([W1 \in {Erase(step1.w, step0.r)} |->
                   Ret(W1, step1.r)])])])
          [] t = "SIGN" ->  \* Sign::sign
               Ret(Clone(W, this), this)
          [] t = "CBRT" ->  \* Cbrt::sign
               sign(W, f_x)
          [] t = "EXP" ->  \* Exp::sign
               Ret(Clone(W, literal1), literal1)
          [] t = "ASIN" ->  \* ASin::sign
               IF guaranteed(W, f_x, "UNITRANGE") THEN sign(W, f_x) ELSE data_sign(W, this)
          [] t = "ATAN" ->  \* ATan::sign
               sign(W, f_x)
          [] t = "SINH" ->  \* SinH::sign
               sign(W, f_x)
          [] t = "COSH" ->  \* CosH::sign
               Ret(Clone(W, literal1), literal1)
          [] t = "TANH" ->  \* TanH::sign
               sign(W, f_x)
          [] t = "ASINH" ->  \* ASinH::sign
               sign(W, f_x)
          [] t = "ATANH" ->  \* ATanH::sign
               IF guaranteed(W, f_x, "OPENUNITRANGE") THEN sign(W, f_x) ELSE data_sign(W, this)
          [] t = "ERF" ->  \* Erf::sign
               sign(W, f_x)
          [] t = "INVERT" ->  \* Invert::sign
               Let([step0 \in {sign(W, f_x)} |->
               Let([step1 \in {invert(step0.w, step0.r)} |->
               Let([W1 \in {Erase(step1.w, step0.r)} |->
                   Ret(W1, step1.r)])])])
          [] t = "NEGATE" ->  \* Negate::sign
               Let([step0 \in {sign(W, f_x)} |->
               Let([step1 \in {negate(step0.w, step0.r)} |->
               Let([W1 \in {Erase(step1.w, step0.r)} |->
                   Ret(W1, step1.r)])])])
          [] OTHER -> data_sign(W, this)

\* Expression::data::sqrt
data_sqrt(W, this) ==
    function(W, this, "SQRT")

\* the dispatch call this->sqrt(): the override of the node's class
sqrt_body(W, this) ==
    LET t == W.node[this].type
        f_x == W.node[this].f_x
        g_x == W.node[this].g_x
        n == W.node[this].n
    IN  CASE t = "CONSTANT" ->  \* ConstantNode::sqrt
               constant(W, cmath("SQRT", n))
          [] t = "SIGN" ->  \* Sign::sqrt
               IF guaranteed(W, f_x, "NONNEGATIVE") THEN Ret(Clone(W, this), this) ELSE data_sqrt(W, this)
          [] t = "INVERT" ->  \* Invert::sqrt
               Let([step0 \in {sqrt(W, f_x)} |->
               Let([step1 \in {invert(step0.w, step0.r)} |->
               Let([W1 \in {Erase(step1.w, step0.r)} |->
                   Ret(W1, step1.r)])])])
          [] t = "SQUARE" ->  \* Square::sqrt
               abs(W, f_x)
          [] t = "POW" ->  \* Pow::sqrt
               Let([step0 \in {mul(W, g_x, literal2Inv)} |->
               Let([step1 \in {pow(step0.w, f_x, step0.r)} |->
               Let([W1 \in {Erase(step1.w, step0.r)} |->
                   Ret(W1, step1.r)])])])
          [] OTHER -> data_sqrt(W, this)

\* Expression::data::cbrt
data_cbrt(W, this) ==
    function(W, this, "CBRT")

\* the dispatch call this->cbrt(): the override of the node's class
cbrt_body(W, this) ==
    LET t == W.node[this].type
        f_x == W.node[this].f_x
        g_x == W.node[this].g_x
        n == W.node[this].n
    IN  CASE t = "CONSTANT" ->  \* ConstantNode::cbrt
               constant(W, cmath("CBRT", n))
          [] t = "SIGN" ->  \* Sign::cbrt
               Ret(Clone(W, this), this)
          [] t = "INVERT" ->  \* Invert::cbrt
               Let([step0 \in {cbrt(W, f_x)} |->
               Let([step1 \in {invert(step0.w, step0.r)} |->
               Let([W1 \in {Erase(step1.w, step0.r)} |->
                   Ret(W1, step1.r)])])])
          [] t = "NEGATE" ->  \* Negate::cbrt
               Let([step0 \in {cbrt(W, f_x)} |->
               Let([step1 \in {negate(step0.w, step0.r)} |->
               Let([W1 \in {Erase(step1.w, step0.r)} |->
                   Ret(W1, step1.r)])])])
          [] t = "POW" ->  \* Pow::cbrt
               Let([step0 \in {mul(W, g_x, literal3Inv)} |->
               Let([step1 \in {pow(step0.w, f_x, step0.r)} |->
               Let([W1 \in {Erase(step1.w, step0.r)} |->
                   Ret(W1, step1.r)])])])
          [] OTHER -> data_cbrt(W, this)

\* Expression::data::exp
data_exp(W, this) ==
    function(W, this, "EXP")

\* the dispatch call this->exp(): the override of the node's class
exp_body(W, this) ==
    LET t == W.node[this].type
        f_x == W.node[this].f_x
        g_x == W.node[this].g_x
        n == W.node[this].n
    IN  CASE t = "CONSTANT" ->  \* ConstantNode::exp
               constant(W, cmath("EXP", n))
          [] t = "LOG" ->  \* Log::exp
               IF guaranteed(W, f_x, "POSITIVE") THEN Ret(Clone(W, f_x), f_x) ELSE data_exp(W, this)
          [] t = "ASINH" ->  \* ASinH::exp
               Let([step0 \in {yconic(W, f_x)} |->
               Let([step1 \in {add(step0.w, f_x, step0.r)} |->
               Let([W1 \in {Erase(step1.w, step0.r)} |->
                   Ret(W1, step1.r)])])])
          [] t = "NEGATE" ->  \* Negate::exp
               Let([step0 \in {exp(W, f_x)} |->
               Let([step1 \in {invert(step0.w, step0.r)} |->
               Let([W1 \in {Erase(step1.w, step0.r)} |->
                   Ret(W1, step1.r)])])])
          [] OTHER -> data_exp(W, this)

\* Expression::data::log
data_log(W, this) ==
    function(W, this, "LOG")

\* the dispatch call this->log(): the override of the node's class
log_body(W, this) ==
    LET t == W.node[this].type
        f_x == W.node[this].f_x
        g_x == W.node[this].g_x
        n == W.node[this].n
    IN  CASE t = "CONSTANT" ->  \* ConstantNode::log
               constant(W, cmath("LOG", n))
          [] t = "EXP" ->  \* Exp::log
               Ret(Clone(W, f_x), f_x)
          [] t = "INVERT" ->  \* Invert::log
               Let([step0 \in {log(W, f_x)} |->
               Let([step1 \in {negate(step0.w, step0.r)} |->
               Let([W1 \in {Erase(step1.w, step0.r)} |->
                   Ret(W1, step1.r)])])])
          [] OTHER -> data_log(W, this)

\* a sin without the override of ConstantNode
sin_unfolded(W, this) == function(W, this, "SIN")

\* Expression::data::sin
data_sin(W, this) ==
    function(W, this, "SIN")

\* the dispatch call this->sin(): the override of the node's class
sin_body(W, this) ==
    LET t == W.node[this].type
        f_x == W.node[this].f_x
        g_x == W.node[this].g_x
        n == W.node[this].n
    IN  CASE t = "CONSTANT" ->  \* ConstantNode::sin
               constant(W, cmath("SIN", n))
          [] t = "ASIN" ->  \* ASin::sin
               IF guaranteed(W, f_x, "UNITRANGE") THEN Ret(Clone(W, f_x), f_x) ELSE data_sin(W, this)
          [] t = "ACOS" ->  \* ACos::sin
               zconic(W, f_x)
          [] t = "NEGATE" ->  \* Negate::sin
               Let([step0 \in {sin(W, f_x)} |->
               Let([step1 \in {negate(step0.w, step0.r)} |->
               Let([W1 \in {Erase(step1.w, step0.r)} |->
                   Ret(W1, step1.r)])])])
          [] OTHER -> data_sin(W, this)

\* Expression::data::cos
data_cos(W, this) ==
    function(W, this, "COS")

\* the dispatch call this->cos(): the override of the node's class
cos_body(W, this) ==
    LET t == W.node[this].type
        f_x == W.node[this].f_x
        g_x == W.node[this].g_x
        n == W.node[this].n
    IN  CASE t = "CONSTANT" ->  \* ConstantNode::cos
               constant(W, cmath("COS", n))
          [] t = "ABS" ->  \* Abs::cos
               cos(W, f_x)
          [] t = "ASIN" ->  \* ASin::cos
               zconic(W, f_x)
          [] t = "ACOS" ->  \* ACos::cos
               IF guaranteed(W, f_x, "UNITRANGE") THEN Ret(Clone(W, f_x), f_x) ELSE data_cos(W, this)
          [] t = "ATAN" ->  \* ATan::cos
               Let([step0 \in {yconic(W, f_x)} |->
               Let([step1 \in {invert(step0.w, step0.r)} |->
               Let([W1 \in {Erase(step1.w, step0.r)} |->
                   Ret(W1, step1.r)])])])
          [] t = "NEGATE" ->  \* Negate::cos
               cos(W, f_x)
          [] OTHER -> data_cos(W, this)

\* Expression::data::tan
data_tan(W, this) ==
    function(W, this, "TAN")

\* the dispatch call this->tan(): the override of the node's class
tan_body(W, this) ==
    LET t == W.node[this].type
        f_x == W.node[this].f_x
        g_x == W.node[this].g_x
        n == W.node[this].n
    IN  CASE t = "CONSTANT" ->  \* ConstantNode::tan
               constant(W, cmath("TAN", n))
          [] t = "ATAN" ->  \* ATan::tan
               Ret(Clone(W, f_x), f_x)
          [] t = "NEGATE" ->  \* Negate::tan
               Let([step0 \in {tan(W, f_x)} |->
               Let([step1 \in {negate(step0.w, step0.r)} |->
               Let([W1 \in {Erase(step1.w, step0.r)} |->
                   Ret(W1, step1.r)])])])
          [] OTHER -> data_tan(W, this)

\* Expression::data::sec
data_sec(W, this) ==
    function(W, this, "SEC")

\* the dispatch call this->sec(): the override of the node's class
sec_body(W, this) ==
    LET t == W.node[this].type
        f_x == W.node[this].f_x
        g_x == W.node[this].g_x
        n == W.node[this].n
    IN  CASE t = "CONSTANT" ->  \* ConstantNode::sec
               constant(W, cmath("SEC", n))
          [] t = "NEGATE" ->  \* Negate::sec
               sec(W, f_x)
          [] OTHER -> data_sec(W, this)

\* Expression::data::asin
data_asin(W, this) ==
    function(W, this, "ASIN")

\* the dispatch call this->asin(): the override of the node's class
asin_body(W, this) ==
    LET t == W.node[this].type
        f_x == W.node[this].f_x
        g_x == W.node[this].g_x
        n == W.node[this].n
    IN  CASE t = "CONSTANT" ->  \* ConstantNode::asin
               constant(W, cmath("ASIN", n))
          [] t = "NEGATE" ->  \* Negate::asin
               Let([step0 \in {asin(W, f_x)} |->
               Let([step1 \in {negate(step0.w, step0.r)} |->
               Let([W1 \in {Erase(step1.w, step0.r)} |->
                   Ret(W1, step1.r)])])])
          [] t = "ZCONIC" ->  \* ZConic::asin
               Let([step0 \in {abs(W, f_x)} |->
               Let([step1 \in {acos(step0.w, step0.r)} |->
               Let([W1 \in {Erase(step1.w, step0.r)} |->
                   Ret(W1, step1.r)])])])
          [] OTHER -> data_asin(W, this)

\* Expression::data::acos
data_acos(W, this) ==
    function(W, this, "ACOS")

\* the dispatch call this->acos(): the override of the node's class
acos_body(W, this) ==
    LET t == W.node[this].type
        f_x == W.node[this].f_x
        g_x == W.node[this].g_x
        n == W.node[this].n
    IN  CASE t = "CONSTANT" ->  \* ConstantNode::acos
               constant(W, cmath("ACOS", n))
          [] t = "ZCONIC" ->  \* ZConic::acos
               Let([step0 \in {asin(W, f_x)} |->
               Let([step1 \in {abs(step0.w, step0.r)} |->
               Let([W1 \in {Erase(step1.w, step0.r)} |->
                   Ret(W1, step1.r)])])])
          [] OTHER -> data_acos(W, this)

\* Expression::data::atan
data_atan(W, this) ==
    function(W, this, "ATAN")

\* the dispatch call this->atan(): the override of the node's class
atan_body(W, this) ==
    LET t == W.node[this].type
        f_x == W.node[this].f_x
        g_x == W.node[this].g_x
        n == W.node[this].n
    IN  CASE t = "CONSTANT" ->  \* ConstantNode::atan
               constant(W, cmath("ATAN", n))
          [] t = "NEGATE" ->  \* Negate::atan
               Let([step0 \in {atan(W, f_x)} |->
               Let([step1 \in {negate(step0.w, step0.r)} |->
               Let([W1 \in {Erase(step1.w, step0.r)} |->
                   Ret(W1, step1.r)])])])
          [] OTHER -> data_atan(W, this)

\* Expression::data::sinh
data_sinh(W, this) ==
    function(W, this, "SINH")

\* the dispatch call this->sinh(): the override of the node's class
sinh_body(W, this) ==
    LET t == W.node[this].type
        f_x == W.node[this].f_x
        g_x == W.node[this].g_x
        n == W.node[this].n
    IN  CASE t = "CONSTANT" ->  \* ConstantNode::sinh
               constant(W, cmath("SINH", n))
          [] t = "ASINH" ->  \* ASinH::sinh
               Ret(Clone(W, f_x), f_x)
          [] t = "ACOSH" ->  \* ACosH::sinh
               zconic(W, f_x)
          [] t = "NEGATE" ->  \* Negate::sinh
               Let([step0 \in {sinh(W, f_x)} |->
               Let([step1 \in {negate(step0.w, step0.r)} |->
               Let([W1 \in {Erase(step1.w, step0.r)} |->
                   Ret(W1, step1.r)])])])
          [] OTHER -> data_sinh(W, this)

\* Expression::data::cosh
data_cosh(W, this) ==
    function(W, this, "COSH")

\* the dispatch call this->cosh(): the override of the node's class
cosh_body(W, this) ==
    LET t == W.node[this].type
        f_x == W.node[this].f_x
        g_x == W.node[this].g_x
        n == W.node[this].n
    IN  CASE t = "CONSTANT" ->  \* ConstantNode::cosh
               constant(W, cmath("COSH", n))
          [] t = "ABS" ->  \* Abs::cosh
               cosh(W, f_x)
          [] t = "ASINH" ->  \* ASinH::cosh
               yconic(W, f_x)
          [] t = "ACOSH" ->  \* ACosH::cosh
               IF guaranteed(W, f_x, "POSITIVE") /\ guaranteed(W, f_x, "ANTIOPENUNITRANGE") THEN Ret(Clone(W, f_x), f_x) ELSE data_cosh(W, this)
          [] t = "ATANH" ->  \* ATanH::cosh
               Let([step0 \in {zconic(W, f_x)} |->
               Let([step1 \in {invert(step0.w, step0.r)} |->
               Let([W1 \in {Erase(step1.w, step0.r)} |->
                   Ret(W1, step1.r)])])])
          [] t = "NEGATE" ->  \* Negate::cosh
               cosh(W, f_x)
          [] OTHER -> data_cosh(W, this)

\* Expression::data::tanh
data_tanh(W, this) ==
    function(W, this, "TANH")

\* the dispatch call this->tanh(): the override of the node's class
tanh_body(W, this) ==
    LET t == W.node[this].type
        f_x == W.node[this].f_x
        g_x == W.node[this].g_x
        n == W.node[this].n
    IN  CASE t = "CONSTANT" ->  \* ConstantNode::tanh
               constant(W, cmath("TANH", n))
          [] t = "ATANH" ->  \* ATanH::tanh
               IF guaranteed(W, f_x, "OPENUNITRANGE") THEN Ret(Clone(W, f_x), f_x) ELSE data_tanh(W, this)
          [] t = "NEGATE" ->  \* Negate::tanh
               Let([step0 \in {tanh(W, f_x)} |->
               Let([step1 \in {negate(step0.w, step0.r)} |->
               Let([W1 \in {Erase(step1.w, step0.r)} |->
                   Ret(W1, step1.r)])])])
          [] OTHER -> data_tanh(W, this)

\* Expression::data::asinh
data_asinh(W, this) ==
    function(W, this, "ASINH")

\* the dispatch call this->asinh(): the override of the node's class
asinh_body(W, this) ==
    LET t == W.node[this].type
        f_x == W.node[this].f_x
        g_x == W.node[this].g_x
        n == W.node[this].n
    IN  CASE t = "CONSTANT" ->  \* ConstantNode::asinh
               constant(W, cmath("ASINH", n))
          [] t = "SINH" ->  \* SinH::asinh
               Ret(Clone(W, f_x), f_x)
          [] t = "NEGATE" ->  \* Negate::asinh
               Let([step0 \in {asinh(W, f_x)} |->
               Let([step1 \in {negate(step0.w, step0.r)} |->
               Let([W1 \in {Erase(step1.w, step0.r)} |->
                   Ret(W1, step1.r)])])])
          [] t = "XCONIC" ->  \* XConic::asinh
               Let([step0 \in {abs(W, f_x)} |->
               Let([step1 \in {acosh(step0.w, step0.r)} |->
               Let([W1 \in {Erase(step1.w, step0.r)} |->
                   Ret(W1, step1.r)])])])
          [] OTHER -> data_asinh(W, this)

\* Expression::data::acosh
data_acosh(W, this) ==
    function(W, this, "ACOSH")

\* the dispatch call this->acosh(): the override of the node's class
acosh_body(W, this) ==
    LET t == W.node[this].type
        f_x == W.node[this].f_x
        g_x == W.node[this].g_x
        n == W.node[this].n
    IN  CASE t = "CONSTANT" ->  \* ConstantNode::acosh
               constant(W, cmath("ACOSH", n))
          [] t = "COSH" ->  \* CosH::acosh
               abs(W, f_x)
          [] t = "YCONIC" ->  \* YConic::acosh
               Let([step0 \in {asinh(W, f_x)} |->
               Let([step1 \in {abs(step0.w, step0.r)} |->
               Let([W1 \in {Erase(step1.w, step0.r)} |->
                   Ret(W1, step1.r)])])])
          [] OTHER -> data_acosh(W, this)

\* Expression::data::atanh
data_atanh(W, this) ==
    function(W, this, "ATANH")

\* the dispatch call this->atanh(): the override of the node's class
atanh_body(W, this) ==
    LET t == W.node[this].type
        f_x == W.node[this].f_x
        g_x == W.node[this].g_x
        n == W.node[this].n
    IN  CASE t = "CONSTANT" ->  \* ConstantNode::atanh
               constant(W, cmath("ATANH", n))
          [] t = "TANH" ->  \* TanH::atanh
               Ret(Clone(W, f_x), f_x)
          [] t = "NEGATE" ->  \* Negate::atanh
               Let([step0 \in {atanh(W, f_x)} |->
               Let([step1 \in {negate(step0.w, step0.r)} |->
               Let([W1 \in {Erase(step1.w, step0.r)} |->
                   Ret(W1, step1.r)])])])
          [] OTHER -> data_atanh(W, this)

\* Expression::data::erf
data_erf(W, this) ==
    function(W, this, "ERF")

\* the dispatch call this->erf(): the override of the node's class
erf_body(W, this) ==
    LET t == W.node[this].type
        f_x == W.node[this].f_x
        g_x == W.node[this].g_x
        n == W.node[this].n
    IN  CASE t = "CONSTANT" ->  \* ConstantNode::erf
               constant(W, cmath("ERF", n))
          [] t = "NEGATE" ->  \* Negate::erf
               Let([step0 \in {erf(W, f_x)} |->
               Let([step1 \in {negate(step0.w, step0.r)} |->
               Let([W1 \in {Erase(step1.w, step0.r)} |->
                   Ret(W1, step1.r)])])])
          [] OTHER -> data_erf(W, this)

\* Expression::data::invert
data_invert(W, this) ==
    function(W, this, "INVERT")

\* the dispatch call this->invert(): the override of the node's class
invert_body(W, this) ==
    LET t == W.node[this].type
        f_x == W.node[this].f_x
        g_x == W.node[this].g_x
        n == W.node[this].n
    IN  CASE t = "CONSTANT" ->  \* ConstantNode::invert
               constant(W, d_div(Num(1), n))
          [] t = "COS" ->  \* Cos::invert
               sec(W, f_x)
          [] t = "SEC" ->  \* Sec::invert
               cos(W, f_x)
          [] t = "INVERT" ->  \* Invert::invert
               IF guaranteed(W, f_x, "NONZERO") THEN Ret(Clone(W, f_x), f_x) ELSE data_invert(W, this)
          [] t = "NEGATE" ->  \* Negate::invert
               Let([step0 \in {invert(W, f_x)} |->
               Let([step1 \in {negate(step0.w, step0.r)} |->
               Let([W1 \in {Erase(step1.w, step0.r)} |->
                   Ret(W1, step1.r)])])])
          [] t = "POW" ->  \* Pow::invert
               Let([step0 \in {negate(W, g_x)} |->
               Let([step1 \in {pow(step0.w, f_x, step0.r)} |->
               Let([W1 \in {Erase(step1.w, step0.r)} |->
                   Ret(W1, step1.r)])])])
          [] OTHER -> data_invert(W, this)

\* Expression::data::negate
data_negate(W, this) ==
    function(W, this, "NEGATE")

\* a negate() without the rule -(-x) ----> x of Negate::negate
negate_nested(W, this) ==
    IF W.node[this].type = "CONSTANT"
    THEN constant(W, d_neg(W.node[this].n))
    ELSE data_negate(W, this)

\* the dispatch call this->negate(): the override of the node's class
negate_body(W, this) ==
    LET t == W.node[this].type
        f_x == W.node[this].f_x
        g_x == W.node[this].g_x
        n == W.node[this].n
    IN  CASE t = "CONSTANT" ->  \* ConstantNode::negate
               constant(W, d_neg(n))
          [] t = "NEGATE" ->  \* Negate::negate
               Ret(Clone(W, f_x), f_x)
          [] OTHER -> data_negate(W, this)

\* Expression::data::square
data_square(W, this) ==
    function(W, this, "SQUARE")

\* the dispatch call this->square(): the override of the node's class
square_body(W, this) ==
    LET t == W.node[this].type
        f_x == W.node[this].f_x
        g_x == W.node[this].g_x
        n == W.node[this].n
    IN  CASE t = "CONSTANT" ->  \* ConstantNode::square
               constant(W, d_mul(n, n))
          [] t = "ABS" ->  \* Abs::square
               square(W, f_x)
          [] t = "SQRT" ->  \* Sqrt::square
               IF guaranteed(W, f_x, "NONNEGATIVE") THEN Ret(Clone(W, f_x), f_x) ELSE data_square(W, this)
          [] t = "INVERT" ->  \* Invert::square
               Let([step0 \in {square(W, f_x)} |->
               Let([step1 \in {invert(step0.w, step0.r)} |->
               Let([W1 \in {Erase(step1.w, step0.r)} |->
                   Ret(W1, step1.r)])])])
          [] t = "NEGATE" ->  \* Negate::square
               square(W, f_x)
          [] t = "POW" ->  \* Pow::square
               Let([step0 \in {add(W, g_x, g_x)} |->
               Let([step1 \in {pow(step0.w, f_x, step0.r)} |->
               Let([W1 \in {Erase(step1.w, step0.r)} |->
                   Ret(W1, step1.r)])])])
          [] OTHER -> data_square(W, this)

\* Expression::data::xconic
data_xconic(W, this) ==
    function(W, this, "XCONIC")

\* the dispatch call this->xconic(): the override of the node's class
xconic_body(W, this) ==
    LET t == W.node[this].type
        f_x == W.node[this].f_x
        g_x == W.node[this].g_x
        n == W.node[this].n
    IN  CASE t = "CONSTANT" ->  \* ConstantNode::xconic
               constant(W, d_sqrt(IF d_lt(Num(0), n) THEN d_sub(d_mul(n, n), Num(1)) ELSE Num(-1)))
          [] t = "YCONIC" ->  \* YConic::xconic
               abs(W, f_x)
          [] t = "COSH" ->  \* CosH::xconic
               Let([step0 \in {sinh(W, f_x)} |->
               Let([step1 \in {abs(step0.w, step0.r)} |->
               Let([W1 \in {Erase(step1.w, step0.r)} |->
                   Ret(W1, step1.r)])])])
          [] OTHER -> data_xconic(W, this)

\* Expression::data::yconic
data_yconic(W, this) ==
    function(W, this, "YCONIC")

\* the dispatch call this->yconic(): the override of the node's class
yconic_body(W, this) ==
    LET t == W.node[this].type
        f_x == W.node[this].f_x
        g_x == W.node[this].g_x
        n == W.node[this].n
    IN  CASE t = "CONSTANT" ->  \* ConstantNode::yconic
               constant(W, cmath("YCONIC", n))
          [] t = "ABS" ->  \* Abs::yconic
               yconic(W, f_x)
          [] t = "NEGATE" ->  \* Negate::yconic
               yconic(W, f_x)
          [] t = "SINH" ->  \* SinH::yconic
               cosh(W, f_x)
          [] t = "XCONIC" ->  \* XConic::yconic
               IF guaranteed(W, f_x, "ANTIOPENUNITRANGE") THEN abs(W, f_x) ELSE data_yconic(W, this)
          [] OTHER -> data_yconic(W, this)

\* Expression::data::zconic
data_zconic(W, this) ==
    function(W, this, "ZCONIC")

\* the dispatch call this->zconic(): the override of the node's class
zconic_body(W, this) ==
    LET t == W.node[this].type
        f_x == W.node[this].f_x
        g_x == W.node[this].g_x
        n == W.node[this].n
    IN  CASE t = "CONSTANT" ->  \* ConstantNode::zconic
               constant(W, cmath("ZCONIC", n))
          [] t = "ABS" ->  \* Abs::zconic
               zconic(W, f_x)
          [] t = "SIN" ->  \* Sin::zconic
               Let([step0 \in {cos(W, f_x)} |->
               Let([step1 \in {abs(step0.w, step0.r)} |->
               Let([W1 \in {Erase(step1.w, step0.r)} |->
                   Ret(W1, step1.r)])])])
          [] t = "COS" ->  \* Cos::zconic
               Let([step0 \in {sin(W, f_x)} |->
               Let([step1 \in {abs(step0.w, step0.r)} |->
               Let([W1 \in {Erase(step1.w, step0.r)} |->
                   Ret(W1, step1.r)])])])
          [] t = "NEGATE" ->  \* Negate::zconic
               zconic(W, f_x)
          [] t = "ZCONIC" ->  \* ZConic::zconic
               IF guaranteed(W, f_x, "UNITRANGE") THEN abs(W, f_x) ELSE data_zconic(W, this)
          [] OTHER -> data_zconic(W, this)

\* Expression::data::add
data_add(W, this, p) ==
    commutative_add(W, p, this)

\* the dispatch call this->add(): the override of the node's class
add_body(W, this, p) ==
    LET t == W.node[this].type
        f_x == W.node[this].f_x
        g_x == W.node[this].g_x
        n == W.node[this].n
    IN  CASE t = "NULL" ->  \* NullExpression::add
               Ret(Clone(W, p), p)
          [] t = "CONSTANT" ->  \* ConstantNode::add
               IF is(W, p, "CONSTANT")
               THEN Let([ev \in {evaluate(W, p)} |->
                        constant(ev.w, d_add(n, ev.r))])
               ELSE IF isOf(W, p, "NEGATE", this)
                    THEN Ret(Clone(W, literal0), literal0)
                    ELSE IF d_eq(n, Num(0))
                         THEN Ret(Clone(W, p), p)
                         ELSE data_add(W, this, p)
          [] t = "NEGATE" ->  \* Negate::add
               data_add(W, this, p)
          [] t = "ADD" ->  \* Add::add
               IF W.node[this].depth > W.limit
               THEN IF W.node[f_x].depth < W.node[g_x].depth
                    THEN Let([step0 \in {add(W, f_x, p)} |->
                         Let([step1 \in {add(step0.w, g_x, step0.r)} |->
                         Let([W1 \in {Erase(step1.w, step0.r)} |->
                             Ret(W1, step1.r)])])])
                    ELSE IF W.node[f_x].depth > W.node[g_x].depth
                         THEN Let([step0 \in {add(W, g_x, p)} |->
                              Let([step1 \in {add(step0.w, f_x, step0.r)} |->
                              Let([W2 \in {Erase(step1.w, step0.r)} |->
                                  Ret(W2, step1.r)])])])
                         ELSE data_add(W, this, p)
               ELSE data_add(W, this, p)
          [] OTHER -> data_add(W, this, p)

\* Expression::data::commutative_add
data_commutative_add(W, this, p) ==
    IF MapFind(W.addNode, this, p) # {}
    THEN Ret(Clone(W, MapGet(W.addNode, this, p)), MapGet(W.addNode, this, p))
    ELSE Add(Clone(Clone(W, p), this), p, this)

\* the dispatch call this->commutative_add(): the override of the node's class
commutative_add_body(W, this, p) ==
    LET t == W.node[this].type
        f_x == W.node[this].f_x
        g_x == W.node[this].g_x
        n == W.node[this].n
    IN  CASE t = "CONSTANT" ->  \* ConstantNode::commutative_add
               IF is(W, p, "CONSTANT")
               THEN Let([ev \in {evaluate(W, p)} |->
                        constant(ev.w, d_add(n, ev.r))])
               ELSE IF isOf(W, p, "NEGATE", this)
                    THEN Ret(Clone(W, literal0), literal0)
                    ELSE IF d_eq(n, Num(0))
                         THEN Ret(Clone(W, p), p)
                         ELSE data_commutative_add(W, this, p)
          [] t = "ADD" ->  \* Add::commutative_add
               IF W.node[this].depth > W.limit
               THEN IF W.node[f_x].depth < W.node[g_x].depth
                    THEN Let([step0 \in {commutative_add(W, f_x, p)} |->
                         Let([step1 \in {commutative_add(step0.w, g_x, step0.r)} |->
                         Let([W1 \in {Erase(step1.w, step0.r)} |->
                             Ret(W1, step1.r)])])])
                    ELSE IF W.node[f_x].depth > W.node[g_x].depth
                         THEN Let([step0 \in {commutative_add(W, g_x, p)} |->
                              Let([step1 \in {commutative_add(step0.w, f_x, step0.r)} |->
                              Let([W2 \in {Erase(step1.w, step0.r)} |->
                                  Ret(W2, step1.r)])])])
                         ELSE data_commutative_add(W, this, p)
               ELSE data_commutative_add(W, this, p)
          [] OTHER -> data_commutative_add(W, this, p)

\* Expression::data::mul
data_mul(W, this, p) ==
    IF p = this
    THEN square(W, this)
    ELSE commutative_mul(W, p, this)

\* the dispatch call this->mul(): the override of the node's class
mul_body(W, this, p) ==
    LET t == W.node[this].type
        f_x == W.node[this].f_x
        g_x == W.node[this].g_x
        n == W.node[this].n
    IN  CASE t = "NULL" ->  \* NullExpression::mul
               Ret(Clone(W, p), p)
          [] t = "CONSTANT" ->  \* ConstantNode::mul
               IF is(W, p, "CONSTANT")
               THEN Let([ev \in {evaluate(W, p)} |->
                        constant(ev.w, d_mul(n, ev.r))])
               ELSE IF d_eq(n, Num(0))
                    THEN Ret(Clone(W, this), this)
                    ELSE IF d_eq(n, Num(1))
                         THEN Ret(Clone(W, p), p)
                         ELSE IF d_eq(n, Num(2))
                              THEN add(W, p, p)
                              ELSE IF d_eq(n, Num(-1))
                                   THEN negate(W, p)
                                   ELSE data_mul(W, this, p)
          [] t = "INVERT" ->  \* Invert::mul
               IF easyInvert(W, p)
               THEN Let([step0 \in {invert(W, p)} |->
                    Let([step1 \in {mul(step0.w, f_x, step0.r)} |->
                    Let([step2 \in {invert(step1.w, step1.r)} |->
                    Let([W1 \in {Erase(step2.w, step0.r)} |->
                    Let([W2 \in {Erase(W1, step1.r)} |->
                        Ret(W2, step2.r)])])])])])
               ELSE data_add(W, this, p)
          [] t = "NEGATE" ->  \* Negate::mul
               Let([W1 \in {assert(W, ~easyNegate_UNREACHABLE(W, p), "UNREACHABLE")} |->
                   IF easyNegate(W1, p)
                   THEN Let([step0 \in {negate(W1, p)} |->
                        Let([step1 \in {mul(step0.w, f_x, step0.r)} |->
                        Let([W2 \in {Erase(step1.w, step0.r)} |->
                            Ret(W2, step1.r)])])])
                   ELSE Let([step0 \in {mul(W1, f_x, p)} |->
                        Let([step1 \in {negate(step0.w, step0.r)} |->
                        Let([W3 \in {Erase(step1.w, step0.r)} |->
                            Ret(W3, step1.r)])])])])
          [] t = "SQUARE" ->  \* Square::mul
               IF f_x = p
               THEN pow(W, f_x, literal3)
               ELSE data_mul(W, this, p)
          [] t = "ADD" ->  \* Add::mul
               IF W.node[this].depth > W.limit
               THEN Let([step0 \in {mul(W, f_x, p)} |->
                    Let([step1 \in {mul(step0.w, g_x, p)} |->
                    Let([step2 \in {add(step1.w, step0.r, step1.r)} |->
                    Let([W1 \in {Erase(step2.w, step0.r)} |->
                    Let([W2 \in {Erase(W1, step1.r)} |->
                        Ret(W2, step2.r)])])])])])
               ELSE data_mul(W, this, p)
          [] t = "MUL" ->  \* Mul::mul
               IF W.node[this].depth > W.limit
               THEN IF W.node[f_x].depth < W.node[g_x].depth
                    THEN Let([step0 \in {mul(W, f_x, p)} |->
                         Let([step1 \in {mul(step0.w, g_x, step0.r)} |->
                         Let([W1 \in {Erase(step1.w, step0.r)} |->
                             Ret(W1, step1.r)])])])
                    ELSE IF W.node[f_x].depth > W.node[g_x].depth
                         THEN Let([step0 \in {mul(W, g_x, p)} |->
                              Let([step1 \in {mul(step0.w, f_x, step0.r)} |->
                              Let([W2 \in {Erase(step1.w, step0.r)} |->
                                  Ret(W2, step1.r)])])])
                         ELSE data_mul(W, this, p)
               ELSE data_mul(W, this, p)
          [] t = "POW" ->  \* Pow::mul
               IF f_x = p
               THEN Let([step0 \in {add(W, g_x, literal1)} |->
                    Let([step1 \in {pow(step0.w, f_x, step0.r)} |->
                    Let([W1 \in {Erase(step1.w, step0.r)} |->
                        Ret(W1, step1.r)])])])
               ELSE data_mul(W, this, p)
          [] OTHER -> data_mul(W, this, p)

\* Expression::data::commutative_mul
data_commutative_mul(W, this, p) ==
    IF MapFind(W.mulNode, this, p) # {}
    THEN Ret(Clone(W, MapGet(W.mulNode, this, p)), MapGet(W.mulNode, this, p))
    ELSE Mul(Clone(Clone(W, p), this), p, this)

\* the dispatch call this->commutative_mul(): the override of the node's class
commutative_mul_body(W, this, p) ==
    LET t == W.node[this].type
        f_x == W.node[this].f_x
        g_x == W.node[this].g_x
        n == W.node[this].n
    IN  CASE t = "CONSTANT" ->  \* ConstantNode::commutative_mul
               IF is(W, p, "CONSTANT")
               THEN Let([ev \in {evaluate(W, p)} |->
                        constant(ev.w, d_mul(n, ev.r))])
               ELSE IF d_eq(n, Num(0))
                    THEN Ret(Clone(W, this), this)
                    ELSE IF d_eq(n, Num(1))
                         THEN Ret(Clone(W, p), p)
                         ELSE IF d_eq(n, Num(2))
                              THEN add(W, p, p)
                              ELSE IF d_eq(n, Num(-1))
                                   THEN negate(W, p)
                                   ELSE data_commutative_mul(W, this, p)
          [] t = "SQUARE" ->  \* Square::commutative_mul
               IF f_x = p
               THEN pow(W, f_x, literal3)
               ELSE data_commutative_mul(W, this, p)
          [] t = "ADD" ->  \* Add::commutative_mul
               IF W.node[this].depth > W.limit
               THEN Let([step0 \in {commutative_mul(W, p, f_x)} |->
                    Let([step1 \in {commutative_mul(step0.w, p, g_x)} |->
                    Let([step2 \in {add(step1.w, step0.r, step1.r)} |->
                    Let([W1 \in {Erase(step2.w, step0.r)} |->
                    Let([W2 \in {Erase(W1, step1.r)} |->
                        Ret(W2, step2.r)])])])])])
               ELSE data_commutative_mul(W, this, p)
          [] t = "MUL" ->  \* Mul::commutative_mul
               IF W.node[this].depth > W.limit
               THEN IF W.node[f_x].depth < W.node[g_x].depth
                    THEN Let([step0 \in {commutative_mul(W, f_x, p)} |->
                         Let([step1 \in {commutative_mul(step0.w, g_x, step0.r)} |->
                         Let([W1 \in {Erase(step1.w, step0.r)} |->
                             Ret(W1, step1.r)])])])
                    ELSE IF W.node[f_x].depth > W.node[g_x].depth
                         THEN Let([step0 \in {commutative_mul(W, g_x, p)} |->
                              Let([step1 \in {commutative_mul(step0.w, f_x, step0.r)} |->
                              Let([W2 \in {Erase(step1.w, step0.r)} |->
                                  Ret(W2, step1.r)])])])
                         ELSE data_commutative_mul(W, this, p)
               ELSE data_commutative_mul(W, this, p)
          [] t = "POW" ->  \* Pow::commutative_mul
               IF f_x = p
               THEN Let([step0 \in {add(W, g_x, literal1)} |->
                    Let([step1 \in {pow(step0.w, f_x, step0.r)} |->
                    Let([W1 \in {Erase(step1.w, step0.r)} |->
                        Ret(W1, step1.r)])])])
               ELSE data_commutative_mul(W, this, p)
          [] OTHER -> data_commutative_mul(W, this, p)

\* Expression::data::pow
data_pow(W, this, p) ==
    IF is(W, p, "CONSTANT")
    THEN Let([n \in {evaluate(W, p)} |->
             IF d_eq(n.r, Num(0))
             THEN Ret(Clone(n.w, literal1), literal1)
             ELSE IF d_eq(n.r, Num(1))
                  THEN Ret(Clone(n.w, this), this)
                  ELSE IF d_eq(n.r, Num(2))
                       THEN square(n.w, this)
                       ELSE IF d_eq(n.r, Num(-1))
                            THEN invert(n.w, this)
                            ELSE IF d_eq(n.r, Rat(1, 2, 0))
                                 THEN sqrt(n.w, this)
                                 ELSE IF d_eq(n.r, Rat(1, 3, 0))
                                      THEN cbrt(n.w, this)
                                      ELSE IF MapFind(n.w.powNode, this, p) # {}
                                           THEN Ret(Clone(n.w, MapGet(n.w.powNode, this, p)), MapGet(n.w.powNode, this, p))
                                           ELSE Pow(Clone(Clone(n.w, this), p), this, p)])
    ELSE IF MapFind(W.powNode, this, p) # {}
         THEN Ret(Clone(W, MapGet(W.powNode, this, p)), MapGet(W.powNode, this, p))
         ELSE Pow(Clone(Clone(W, this), p), this, p)

\* the dispatch call this->pow(): the override of the node's class
pow_body(W, this, p) ==
    LET t == W.node[this].type
        f_x == W.node[this].f_x
        g_x == W.node[this].g_x
        n == W.node[this].n
    IN  CASE t = "CONSTANT" ->  \* ConstantNode::pow
               IF is(W, p, "CONSTANT")
               THEN Let([ev \in {evaluate(W, p)} |->
                        constant(ev.w, d_pow(n, ev.r))])
               ELSE IF d_eq(n, Num(0)) /\ guaranteed(W, p, "NONZERO")
                    THEN Ret(Clone(W, this), this)
                    ELSE IF d_eq(n, Num(1))
                         THEN Ret(Clone(W, this), this)
                         ELSE IF d_eq(n, d_exp(Num(1)))
                              THEN exp(W, p)
                              ELSE data_pow(W, this, p)
          [] t = "SQRT" ->  \* Sqrt::pow
               Let([step0 \in {mul(W, p, literal2Inv)} |->
               Let([step1 \in {pow(step0.w, f_x, step0.r)} |->
               Let([W1 \in {Erase(step1.w, step0.r)} |->
                   Ret(W1, step1.r)])])])
          [] t = "CBRT" ->  \* Cbrt::pow
               Let([step0 \in {mul(W, p, literal3Inv)} |->
               Let([step1 \in {pow(step0.w, f_x, step0.r)} |->
               Let([W1 \in {Erase(step1.w, step0.r)} |->
                   Ret(W1, step1.r)])])])
          [] t = "EXP" ->  \* Exp::pow
               Let([step0 \in {mul(W, f_x, p)} |->
               Let([step1 \in {exp(step0.w, step0.r)} |->
               Let([W1 \in {Erase(step1.w, step0.r)} |->
                   Ret(W1, step1.r)])])])
          [] t = "INVERT" ->  \* Invert::pow
               Let([step0 \in {pow(W, f_x, p)} |->
               Let([step1 \in {invert(step0.w, step0.r)} |->
               Let([W1 \in {Erase(step1.w, step0.r)} |->
                   Ret(W1, step1.r)])])])
          [] t = "SQUARE" ->  \* Square::pow
               Let([step0 \in {add(W, p, p)} |->
               Let([step1 \in {pow(step0.w, f_x, step0.r)} |->
               Let([W1 \in {Erase(step1.w, step0.r)} |->
                   Ret(W1, step1.r)])])])
          [] t = "POW" ->  \* Pow::pow
               Let([step0 \in {mul(W, g_x, p)} |->
               Let([step1 \in {pow(step0.w, f_x, step0.r)} |->
               Let([W1 \in {Erase(step1.w, step0.r)} |->
                   Ret(W1, step1.r)])])])
          [] OTHER -> data_pow(W, this, p)

\* a derivative that tells the variables apart by their values
derivative_by_value(W, this, r) ==
    IF W.node[this].type = "VARIABLE"
    THEN constant(W, Num(IF W.val[r] = W.val[W.node[this].x] THEN 1 ELSE 0))
    ELSE Ret(Clone(W, literal0), literal0)

\* the dispatch call this->derivative(): the override of the node's class
derivative(W, this, r) ==
    LET t == W.node[this].type
        f_x == W.node[this].f_x
        g_x == W.node[this].g_x
        n == W.node[this].n
    IN  CASE t = "NULL" ->  \* NullExpression::derivative
               Ret(Clone(W, this), this)
          [] t = "CONSTANT" ->  \* ConstantNode::derivative
               Ret(Clone(W, literal0), literal0)
          [] t = "VARIABLE" ->  \* VariableNode::derivative
               constant(W, Num(IF r = W.node[this].x THEN 1 ELSE 0))
          [] t = "ABS" ->  \* Abs::derivative
               Let([step0 \in {derive(W, f_x, r)} |->
               Let([step1 \in {sign(step0.w, f_x)} |->
               Let([step2 \in {mul(step1.w, step0.r, step1.r)} |->
               Let([W1 \in {Erase(step2.w, step0.r)} |->
               Let([W2 \in {Erase(W1, step1.r)} |->
                   Ret(W2, step2.r)])])])])])
          [] t = "SIGN" ->  \* Sign::derivative
               Ret(Clone(W, literal0), literal0)
          [] t = "SQRT" ->  \* Sqrt::derivative
               Let([step0 \in {derive(W, f_x, r)} |->
               Let([step1 \in {add(step0.w, this, this)} |->
               Let([step2 \in {invert(step1.w, step1.r)} |->
               Let([step3 \in {mul(step2.w, step0.r, step2.r)} |->
               Let([W1 \in {Erase(step3.w, step0.r)} |->
               Let([W2 \in {Erase(W1, step1.r)} |->
               Let([W3 \in {Erase(W2, step2.r)} |->
                   Ret(W3, step3.r)])])])])])])])
          [] t = "CBRT" ->  \* Cbrt::derivative
               Let([step0 \in {derive(W, f_x, r)} |->
               Let([step1 \in {square(step0.w, this)} |->
               Let([step2 \in {mul(step1.w, step1.r, literal3)} |->
               Let([step3 \in {invert(step2.w, step2.r)} |->
               Let([step4 \in {mul(step3.w, step0.r, step3.r)} |->
               Let([W1 \in {Erase(step4.w, step0.r)} |->
               Let([W2 \in {Erase(W1, step1.r)} |->
               Let([W3 \in {Erase(W2, step2.r)} |->
               Let([W4 \in {Erase(W3, step3.r)} |->
                   Ret(W4, step4.r)])])])])])])])])])
          [] t = "EXP" ->  \* Exp::derivative
               Let([step0 \in {derive(W, f_x, r)} |->
               Let([step1 \in {mul(step0.w, this, step0.r)} |->
               Let([W1 \in {Erase(step1.w, step0.r)} |->
                   Ret(W1, step1.r)])])])
          [] t = "LOG" ->  \* Log::derivative
               Let([step0 \in {derive(W, f_x, r)} |->
               Let([step1 \in {invert(step0.w, f_x)} |->
               Let([step2 \in {mul(step1.w, step0.r, step1.r)} |->
               Let([W1 \in {Erase(step2.w, step0.r)} |->
               Let([W2 \in {Erase(W1, step1.r)} |->
                   Ret(W2, step2.r)])])])])])
          [] t = "SIN" ->  \* Sin::derivative
               Let([step0 \in {derive(W, f_x, r)} |->
               Let([step1 \in {cos(step0.w, f_x)} |->
               Let([step2 \in {mul(step1.w, step0.r, step1.r)} |->
               Let([W1 \in {Erase(step2.w, step0.r)} |->
               Let([W2 \in {Erase(W1, step1.r)} |->
                   Ret(W2, step2.r)])])])])])
          [] t = "COS" ->  \* Cos::derivative
               Let([step0 \in {derive(W, f_x, r)} |->
               Let([step1 \in {sin(step0.w, f_x)} |->
               Let([step2 \in {mul(step1.w, step0.r, step1.r)} |->
               Let([step3 \in {negate(step2.w, step2.r)} |->
               Let([W1 \in {Erase(step3.w, step0.r)} |->
               Let([W2 \in {Erase(W1, step1.r)} |->
               Let([W3 \in {Erase(W2, step2.r)} |->
                   Ret(W3, step3.r)])])])])])])])
          [] t = "TAN" ->  \* Tan::derivative
               Let([step0 \in {derive(W, f_x, r)} |->
               Let([step1 \in {sec(step0.w, f_x)} |->
               Let([step2 \in {square(step1.w, step1.r)} |->
               Let([step3 \in {mul(step2.w, step0.r, step2.r)} |->
               Let([W1 \in {Erase(step3.w, step0.r)} |->
               Let([W2 \in {Erase(W1, step1.r)} |->
               Let([W3 \in {Erase(W2, step2.r)} |->
                   Ret(W3, step3.r)])])])])])])])
          [] t = "SEC" ->  \* Sec::derivative
               Let([step0 \in {derive(W, f_x, r)} |->
               Let([step1 \in {tan(step0.w, f_x)} |->
               Let([step2 \in {mul(step1.w, this, step1.r)} |->
               Let([step3 \in {mul(step2.w, step0.r, step2.r)} |->
               Let([W1 \in {Erase(step3.w, step0.r)} |->
               Let([W2 \in {Erase(W1, step1.r)} |->
               Let([W3 \in {Erase(W2, step2.r)} |->
                   Ret(W3, step3.r)])])])])])])])
          [] t = "ASIN" ->  \* ASin::derivative
               Let([step0 \in {derive(W, f_x, r)} |->
               Let([step1 \in {zconic(step0.w, f_x)} |->
               Let([step2 \in {invert(step1.w, step1.r)} |->
               Let([step3 \in {mul(step2.w, step0.r, step2.r)} |->
               Let([W1 \in {Erase(step3.w, step0.r)} |->
               Let([W2 \in {Erase(W1, step1.r)} |->
               Let([W3 \in {Erase(W2, step2.r)} |->
                   Ret(W3, step3.r)])])])])])])])
          [] t = "ACOS" ->  \* ACos::derivative
               Let([step0 \in {derive(W, f_x, r)} |->
               Let([step1 \in {zconic(step0.w, f_x)} |->
               Let([step2 \in {invert(step1.w, step1.r)} |->
               Let([step3 \in {mul(step2.w, step0.r, step2.r)} |->
               Let([step4 \in {negate(step3.w, step3.r)} |->
               Let([W1 \in {Erase(step4.w, step0.r)} |->
               Let([W2 \in {Erase(W1, step1.r)} |->
               Let([W3 \in {Erase(W2, step2.r)} |->
               Let([W4 \in {Erase(W3, step3.r)} |->
                   Ret(W4, step4.r)])])])])])])])])])
          [] t = "ATAN" ->  \* ATan::derivative
               Let([step0 \in {derive(W, f_x, r)} |->
               Let([step1 \in {yconic(step0.w, f_x)} |->
               Let([step2 \in {square(step1.w, step1.r)} |->
               Let([step3 \in {invert(step2.w, step2.r)} |->
               Let([step4 \in {mul(step3.w, step0.r, step3.r)} |->
               Let([W1 \in {Erase(step4.w, step0.r)} |->
               Let([W2 \in {Erase(W1, step1.r)} |->
               Let([W3 \in {Erase(W2, step2.r)} |->
               Let([W4 \in {Erase(W3, step3.r)} |->
                   Ret(W4, step4.r)])])])])])])])])])
          [] t = "SINH" ->  \* SinH::derivative
               Let([step0 \in {derive(W, f_x, r)} |->
               Let([step1 \in {cosh(step0.w, f_x)} |->
               Let([step2 \in {mul(step1.w, step0.r, step1.r)} |->
               Let([W1 \in {Erase(step2.w, step0.r)} |->
               Let([W2 \in {Erase(W1, step1.r)} |->
                   Ret(W2, step2.r)])])])])])
          [] t = "COSH" ->  \* CosH::derivative
               Let([step0 \in {derive(W, f_x, r)} |->
               Let([step1 \in {sinh(step0.w, f_x)} |->
               Let([step2 \in {mul(step1.w, step0.r, step1.r)} |->
               Let([W1 \in {Erase(step2.w, step0.r)} |->
               Let([W2 \in {Erase(W1, step1.r)} |->
                   Ret(W2, step2.r)])])])])])
          [] t = "TANH" ->  \* TanH::derivative
               Let([step0 \in {derive(W, f_x, r)} |->
               Let([step1 \in {cosh(step0.w, f_x)} |->
               Let([step2 \in {square(step1.w, step1.r)} |->
               Let([step3 \in {invert(step2.w, step2.r)} |->
               Let([step4 \in {mul(step3.w, step0.r, step3.r)} |->
               Let([W1 \in {Erase(step4.w, step0.r)} |->
               Let([W2 \in {Erase(W1, step1.r)} |->
               Let([W3 \in {Erase(W2, step2.r)} |->
               Let([W4 \in {Erase(W3, step3.r)} |->
                   Ret(W4, step4.r)])])])])])])])])])
          [] t = "ASINH" ->  \* ASinH::derivative
               Let([step0 \in {derive(W, f_x, r)} |->
               Let([step1 \in {yconic(step0.w, f_x)} |->
               Let([step2 \in {invert(step1.w, step1.r)} |->
               Let([step3 \in {mul(step2.w, step0.r, step2.r)} |->
               Let([W1 \in {Erase(step3.w, step0.r)} |->
               Let([W2 \in {Erase(W1, step1.r)} |->
               Let([W3 \in {Erase(W2, step2.r)} |->
                   Ret(W3, step3.r)])])])])])])])
          [] t = "ACOSH" ->  \* ACosH::derivative
               Let([step0 \in {derive(W, f_x, r)} |->
               Let([step1 \in {xconic(step0.w, f_x)} |->
               Let([step2 \in {invert(step1.w, step1.r)} |->
               Let([step3 \in {mul(step2.w, step0.r, step2.r)} |->
               Let([W1 \in {Erase(step3.w, step0.r)} |->
               Let([W2 \in {Erase(W1, step1.r)} |->
               Let([W3 \in {Erase(W2, step2.r)} |->
                   Ret(W3, step3.r)])])])])])])])
          [] t = "ATANH" ->  \* ATanH::derivative
               Let([step0 \in {derive(W, f_x, r)} |->
               Let([step1 \in {zconic(step0.w, f_x)} |->
               Let([step2 \in {square(step1.w, step1.r)} |->
               Let([step3 \in {invert(step2.w, step2.r)} |->
               Let([step4 \in {mul(step3.w, step0.r, step3.r)} |->
               Let([W1 \in {Erase(step4.w, step0.r)} |->
               Let([W2 \in {Erase(W1, step1.r)} |->
               Let([W3 \in {Erase(W2, step2.r)} |->
               Let([W4 \in {Erase(W3, step3.r)} |->
                   Ret(W4, step4.r)])])])])])])])])])
          [] t = "ERF" ->  \* Erf::derivative
               Let([step0 \in {derive(W, f_x, r)} |->
               Let([step1 \in {square(step0.w, f_x)} |->
               Let([step2 \in {exp(step1.w, step1.r)} |->
               Let([step3 \in {invert(step2.w, step2.r)} |->
               Let([step4 \in {mul(step3.w, step3.r, erfDiffConst)} |->
               Let([step5 \in {mul(step4.w, step0.r, step4.r)} |->
               Let([W1 \in {Erase(step5.w, step0.r)} |->
               Let([W2 \in {Erase(W1, step1.r)} |->
               Let([W3 \in {Erase(W2, step2.r)} |->
               Let([W4 \in {Erase(W3, step3.r)} |->
               Let([W5 \in {Erase(W4, step4.r)} |->
                   Ret(W5, step5.r)])])])])])])])])])])])
          [] t = "INVERT" ->  \* Invert::derivative
               Let([step0 \in {derive(W, f_x, r)} |->
               Let([step1 \in {square(step0.w, this)} |->
               Let([step2 \in {mul(step1.w, step0.r, step1.r)} |->
               Let([step3 \in {negate(step2.w, step2.r)} |->
               Let([W1 \in {Erase(step3.w, step0.r)} |->
               Let([W2 \in {Erase(W1, step1.r)} |->
               Let([W3 \in {Erase(W2, step2.r)} |->
                   Ret(W3, step3.r)])])])])])])])
          [] t = "NEGATE" ->  \* Negate::derivative
               Let([step0 \in {derive(W, f_x, r)} |->
               Let([step1 \in {negate(step0.w, step0.r)} |->
               Let([W1 \in {Erase(step1.w, step0.r)} |->
                   Ret(W1, step1.r)])])])
          [] t = "SQUARE" ->  \* Square::derivative
               Let([step0 \in {derive(W, f_x, r)} |->
               Let([step1 \in {add(step0.w, f_x, f_x)} |->
               Let([step2 \in {mul(step1.w, step0.r, step1.r)} |->
               Let([W1 \in {Erase(step2.w, step0.r)} |->
               Let([W2 \in {Erase(W1, step1.r)} |->
                   Ret(W2, step2.r)])])])])])
          [] t = "XCONIC" ->  \* XConic::derivative
               Let([step0 \in {derive(W, f_x, r)} |->
               Let([step1 \in {invert(step0.w, this)} |->
               Let([step2 \in {mul(step1.w, step1.r, f_x)} |->
               Let([step3 \in {mul(step2.w, step0.r, step2.r)} |->
               Let([W1 \in {Erase(step3.w, step0.r)} |->
               Let([W2 \in {Erase(W1, step1.r)} |->
               Let([W3 \in {Erase(W2, step2.r)} |->
                   Ret(W3, step3.r)])])])])])])])
          [] t = "YCONIC" ->  \* YConic::derivative
               Let([step0 \in {derive(W, f_x, r)} |->
               Let([step1 \in {invert(step0.w, this)} |->
               Let([step2 \in {mul(step1.w, step1.r, f_x)} |->
               Let([step3 \in {mul(step2.w, step0.r, step2.r)} |->
               Let([W1 \in {Erase(step3.w, step0.r)} |->
               Let([W2 \in {Erase(W1, step1.r)} |->
               Let([W3 \in {Erase(W2, step2.r)} |->
                   Ret(W3, step3.r)])])])])])])])
          [] t = "ZCONIC" ->  \* ZConic::derivative
               Let([step0 \in {derive(W, f_x, r)} |->
               Let([step1 \in {invert(step0.w, this)} |->
               Let([step2 \in {mul(step1.w, step1.r, f_x)} |->
               Let([step3 \in {mul(step2.w, step0.r, step2.r)} |->
               Let([step4 \in {negate(step3.w, step3.r)} |->
               Let([W1 \in {Erase(step4.w, step0.r)} |->
               Let([W2 \in {Erase(W1, step1.r)} |->
               Let([W3 \in {Erase(W2, step2.r)} |->
               Let([W4 \in {Erase(W3, step3.r)} |->
                   Ret(W4, step4.r)])])])])])])])])])
          [] t = "ADD" ->  \* Add::derivative
               Let([step0 \in {derive(W, f_x, r)} |->
               Let([step1 \in {derive(step0.w, g_x, r)} |->
               Let([step2 \in {add(step1.w, step1.r, step0.r)} |->
               Let([W1 \in {Erase(step2.w, step0.r)} |->
               Let([W2 \in {Erase(W1, step1.r)} |->
                   Ret(W2, step2.r)])])])])])
          [] t = "MUL" ->  \* Mul::derivative
               Let([step0 \in {derive(W, f_x, r)} |->
               Let([step1 \in {derive(step0.w, g_x, r)} |->
               Let([step2 \in {mul(step1.w, step1.r, f_x)} |->
               Let([step3 \in {mul(step2.w, step0.r, g_x)} |->
               Let([step4 \in {add(step3.w, step3.r, step2.r)} |->
               Let([W1 \in {Erase(step4.w, step0.r)} |->
               Let([W2 \in {Erase(W1, step1.r)} |->
               Let([W3 \in {Erase(W2, step2.r)} |->
               Let([W4 \in {Erase(W3, step3.r)} |->
                   Ret(W4, step4.r)])])])])])])])])])
          [] t = "POW" ->  \* Pow::derivative
               Let([step0 \in {derive(W, f_x, r)} |->
               Let([step1 \in {derive(step0.w, g_x, r)} |->
               Let([step2 \in {log(step1.w, f_x)} |->
               Let([step3 \in {add(step2.w, g_x, literal1Neg)} |->
               Let([step4 \in {pow(step3.w, f_x, step3.r)} |->
               Let([step5 \in {mul(step4.w, g_x, step4.r)} |->
               Let([step6 \in {mul(step5.w, this, step2.r)} |->
               Let([step7 \in {mul(step6.w, step0.r, step5.r)} |->
               Let([step8 \in {mul(step7.w, step1.r, step6.r)} |->
               Let([step9 \in {add(step8.w, step7.r, step8.r)} |->
               Let([W1 \in {Erase(step9.w, step0.r)} |->
               Let([W2 \in {Erase(W1, step1.r)} |->
               Let([W3 \in {Erase(W2, step2.r)} |->
               Let([W4 \in {Erase(W3, step3.r)} |->
               Let([W5 \in {Erase(W4, step4.r)} |->
               Let([W6 \in {Erase(W5, step5.r)} |->
               Let([W7 \in {Erase(W6, step6.r)} |->
               Let([W8 \in {Erase(W7, step7.r)} |->
               Let([W9 \in {Erase(W8, step8.r)} |->
                   Ret(W9, step9.r)])])])])])])])])])])])])])])])])])])])

\* Expression::data::derive: the derivative is computed once and cached
derive_body(W, this, r) ==
    IF W.node[this].cachedNode # 0
    THEN Ret(Clone(W, W.node[this].cachedNode), W.node[this].cachedNode)
    ELSE Let([d \in {derivative(W, this, r)} |->
         Let([W1 \in {[d.w EXCEPT !.node[this].cachedNode = d.r]} |->
             Ret(Clone(W1, d.r), d.r)])])

dispatch(W, m, this, p) ==
    CASE m = "abs" -> abs_body(W, this)
      [] m = "sign" -> sign_body(W, this)
      [] m = "sqrt" -> sqrt_body(W, this)
      [] m = "cbrt" -> cbrt_body(W, this)
      [] m = "exp" -> exp_body(W, this)
      [] m = "log" -> log_body(W, this)
      [] m = "sin" -> sin_body(W, this)
      [] m = "cos" -> cos_body(W, this)
      [] m = "tan" -> tan_body(W, this)
      [] m = "sec" -> sec_body(W, this)
      [] m = "asin" -> asin_body(W, this)
      [] m = "acos" -> acos_body(W, this)
      [] m = "atan" -> atan_body(W, this)
      [] m = "sinh" -> sinh_body(W, this)
      [] m = "cosh" -> cosh_body(W, this)
      [] m = "tanh" -> tanh_body(W, this)
      [] m = "asinh" -> asinh_body(W, this)
      [] m = "acosh" -> acosh_body(W, this)
      [] m = "atanh" -> atanh_body(W, this)
      [] m = "erf" -> erf_body(W, this)
      [] m = "invert" -> invert_body(W, this)
      [] m = "negate" -> negate_body(W, this)
      [] m = "square" -> square_body(W, this)
      [] m = "xconic" -> xconic_body(W, this)
      [] m = "yconic" -> yconic_body(W, this)
      [] m = "zconic" -> zconic_body(W, this)
      [] m = "add" -> add_body(W, this, p)
      [] m = "commutative_add" -> commutative_add_body(W, this, p)
      [] m = "mul" -> mul_body(W, this, p)
      [] m = "commutative_mul" -> commutative_mul_body(W, this, p)
      [] m = "pow" -> pow_body(W, this, p)
      [] m = "derive" -> derive_body(W, this, p)
      [] m = "guaranteed" -> guaranteed_body(W, this, p)
      [] m = "evaluate" -> evaluate_body(W, this)
      [] m = "Erase" -> Erase_body(W, this)
      [] m = "cmath" -> cmath_body(this, p)

\* Expression::data::purge
data_purge(W, this) ==
    IF W.node[this].cachedNode # 0
    THEN [Erase(W, W.node[this].cachedNode) EXCEPT !.node[this].cachedNode = 0]
    ELSE W

\* a purge that does nothing
purge_none(W, this) == W

\* a purge that forgets the operands
purge_shallow(W, this) == data_purge(W, this)

\* a purge that stops at a node another parent has purged before and at
\* the operand of a Sign node
RECURSIVE purge_once(_, _)
purge_once(W, this) ==
    LET t == W.node[this].type
    IN  CASE t = "SIGN" -> data_purge(W, this)
          [] t \in NodeType ->
               IF W.node[this].cachedNode # 0
               THEN purge_once(data_purge(W, this), W.node[this].f_x)
               ELSE W
          [] t \in {"ADD", "MUL", "POW"} ->
               IF W.node[this].cachedNode # 0
               THEN IF W.node[this].f_x = W.node[this].g_x
                    THEN data_purge(W, this)
                    ELSE purge_once(purge_once(data_purge(W, this), W.node[this].f_x),
                                    W.node[this].g_x)
               ELSE W
          [] OTHER -> data_purge(W, this)

\* FunctionNode::purge, OperatorNode::purge
RECURSIVE purge(_, _)
purge(W, this) ==
    LET t == W.node[this].type
    IN  CASE t \in NodeType ->
               IF W.node[this].cachedNode # 0
               THEN purge(data_purge(W, this), W.node[this].f_x)
               ELSE W
          [] t \in {"ADD", "MUL", "POW"} ->
               IF W.node[this].cachedNode # 0
               THEN purge(purge(data_purge(W, this), W.node[this].f_x), W.node[this].g_x)
               ELSE W
          [] OTHER -> data_purge(W, this)

(***************************************************************************)
(* The program's state: the heap of nodes, the interning tables, the       *)
(* dirty level, the variables' values and the Expression objects.          *)
(***************************************************************************)
VARIABLES node, constantNode, variableNode, functionNode, addNode, mulNode,
          powNode, dirtyLevel, val, pData, fail, last, pending, disciplined, ops

vars == <<node, constantNode, variableNode, functionNode, addNode, mulNode,
          powNode, dirtyLevel, val, pData, fail, last, pending, disciplined, ops>>

\* the Expression objects of the client: pData[i] = 0 when object i does not exist
Slot == 1..MaxHandles

World ==
    [node |-> node, constantNode |-> constantNode, variableNode |-> variableNode,
     functionNode |-> functionNode, addNode |-> addNode, mulNode |-> mulNode,
     powNode |-> powNode, dirtyLevel |-> dirtyLevel, val |-> val, fail |-> fail,
     cut |-> FALSE, limit |-> STACK_LIMIT]

\* the dispatch methods of Expression::data, by name
Method ==
    {"abs", "sign", "sqrt", "cbrt", "exp", "log", "sin", "cos", "tan",
     "sec", "asin", "acos", "atan", "sinh", "cosh", "tanh", "asinh",
     "acosh", "atanh", "erf", "invert", "negate", "square", "xconic",
     "yconic", "zconic"}

\* the elementary functions of the Expression API
ApiFunction ==
    {"abs", "sign", "sqrt", "cbrt", "exp", "log", "sin", "cos", "tan",
     "asin", "acos", "atan", "sinh", "cosh", "tanh", "asinh", "acosh",
     "atanh", "erf"}

\* a call of a dispatch method through the node's pointer
Invoke1(Op(_, _), W, p) == Op(W, p)
Invoke2(Op(_, _, _), W, p, q) == Op(W, p, q)
Invoke3(Op(_, _, _, _), W, m, p, q) == Op(W, m, p, q)

call(W, m, p) == Invoke3(dispatch, W, m, p, 0)

\* the static nodes (NullExpression::instance and the literals)
StaticNode(i) ==
    CASE i = NullInstance -> data("NULL", 0, 0, Num(0), "", 0)
      [] i = literal0 -> data("CONSTANT", 0, 0, Num(0), "", 0)
      [] i = literal1 -> data("CONSTANT", 0, 0, Num(1), "", 0)
      [] i = literal3 -> data("CONSTANT", 0, 0, Num(3), "", 0)
      [] i = literal2Inv -> data("CONSTANT", 0, 0, Rat(1, 2, 0), "", 0)
      [] i = literal3Inv -> data("CONSTANT", 0, 0, Rat(1, 3, 0), "", 0)
      [] i = literal1Neg -> data("CONSTANT", 0, 0, Num(-1), "", 0)
      [] i = erfDiffConst -> data("CONSTANT", 0, 0, Rat(1, 1, 1), "", 0)

Init ==
    /\ node = [i \in Id |-> IF i \in Statics THEN StaticNode(i) ELSE FreeNode]
    /\ constantNode = {<<StaticNode(i).n, i>> : i \in Statics \ {NullInstance}}
    /\ variableNode = {}
    /\ functionNode = {}
    /\ addNode = {}
    /\ mulNode = {}
    /\ powNode = {}
    /\ dirtyLevel = 1
    /\ val = [x \in Vars |-> Num(0)]
    /\ pData = [i \in Slot |-> 0]
    /\ fail = ""
    /\ last = <<>>
    /\ pending = 0
    /\ disciplined = TRUE
    /\ ops = 0

(***************************************************************************)
(* The operations of the Expression and Variable API.                      *)
(***************************************************************************)
\* the program runs until an assertion fails; after constructing its Expression
\* objects (c = 0) a run makes at most MaxOps further calls (c = 1)
Running(c) == fail = "" /\ ops + c <= MaxOps

\* the state after an operation; a failed assertion stops the program
Commit(W, p, c) ==
    /\ ~W.cut
    /\ ops' = ops + c
    /\ fail' = W.fail
    /\ IF W.fail # ""
       THEN UNCHANGED <<node, constantNode, variableNode, functionNode, addNode,
                        mulNode, powNode, dirtyLevel, val, pData>>
       ELSE /\ node' = W.node
            /\ constantNode' = W.constantNode
            /\ variableNode' = W.variableNode
            /\ functionNode' = W.functionNode
            /\ addNode' = W.addNode
            /\ mulNode' = W.mulNode
            /\ powNode' = W.powNode
            /\ dirtyLevel' = W.dirtyLevel
            /\ val' = W.val
            /\ pData' = p

\* Expression::operator=: object i takes the result r, its old node is erased
Assign(W, i, r, c) ==
    /\ \E W1 \in {Erase(W, pData[i])} : Commit(W1, [pData EXCEPT ![i] = r], c)
    /\ disciplined' = (disciplined /\ pending = 0)
    /\ UNCHANGED <<last, pending>>

\* Expression::Expression()
ExprDefault ==
    \E i \in Slot :
        /\ Running(0)
        /\ pData[i] = 0
        /\ \E W \in {Clone(World, NullInstance)} :
               Assign(W, i, NullInstance, 0)

\* Expression::Expression(double), Expression::Expression(int)
ExprConst(C) ==
    \E i \in Slot, d \in C :
        /\ Running(0)
        /\ pData[i] = 0
        /\ \E R \in {constant(World, d)} :
               Assign(R.w, i, R.r, 0)

\* Expression::Expression(Variable const&)
ExprVar(V) ==
    \E i \in Slot, x \in V :
        /\ Running(0)
        /\ pData[i] = 0
        /\ \E R \in {variable(World, x)} :
               Assign(R.w, i, R.r, 0)

\* Expression::Expression(Expression const&)
ExprCopy ==
    \E i, j \in Slot :
        /\ Running(0)
        /\ pData[i] = 0
        /\ pData[j] # 0
        /\ \E W \in {Clone(World, pData[j])} :
               Assign(W, i, pData[j], 0)

\* Expression::~Expression
ExprDrop ==
    \E i \in Slot :
        /\ Running(1)
        /\ pData[i] # 0
        /\ \E W \in {World} : Assign(W, i, 0, 1)

\* abs(Expression const&), ..., erf(Expression const&)
ExprUnary(F) ==
    \E i, j \in Slot, f \in F :
        /\ Running(1)
        /\ pData[j] # 0
        /\ \E R \in {call(World, f, pData[j])} :
               Assign(R.w, i, R.r, 1)

\* operator-(Expression const&)
ExprNeg ==
    \E i, j \in Slot :
        /\ Running(1)
        /\ pData[j] # 0
        /\ \E R \in {Invoke1(negate, World, pData[j])} :
               Assign(R.w, i, R.r, 1)

\* operator+(Expression const&, Expression const&)
ExprAdd ==
    \E i, j, k \in Slot :
        /\ Running(1)
        /\ pData[j] # 0 /\ pData[k] # 0
        /\ \E R \in {Invoke2(add, World, pData[j], pData[k])} :
               Assign(R.w, i, R.r, 1)

\* r - s: step0 = s.negate(), step1 = r.add(step0), Erase(step0)
EraseStep(step0, step1) == Ret(Erase(step1.w, step0.r), step1.r)
AddStep(step0, r) == EraseStep(step0, Invoke2(add, step0.w, r, step0.r))
operator_sub(W, r, s) == AddStep(Invoke1(negate, W, s), r)

\* operator-(Expression const&, Expression const&)
ExprSub ==
    \E i, j, k \in Slot :
        /\ Running(1)
        /\ pData[j] # 0 /\ pData[k] # 0
        /\ \E R \in {operator_sub(World, pData[j], pData[k])} :
               Assign(R.w, i, R.r, 1)

\* operator*(Expression const&, Expression const&)
ExprMul ==
    \E i, j, k \in Slot :
        /\ Running(1)
        /\ pData[j] # 0 /\ pData[k] # 0
        /\ \E R \in {Invoke2(mul, World, pData[j], pData[k])} :
               Assign(R.w, i, R.r, 1)

\* r / s: step0 = s.invert(), step1 = r.mul(step0), Erase(step0)
MulStep(step0, r) == EraseStep(step0, Invoke2(mul, step0.w, r, step0.r))
operator_div(W, r, s) == MulStep(Invoke1(invert, W, s), r)

\* operator/(Expression const&, Expression const&)
ExprDiv ==
    \E i, j, k \in Slot :
        /\ Running(1)
        /\ pData[j] # 0 /\ pData[k] # 0
        /\ \E R \in {operator_div(World, pData[j], pData[k])} :
               Assign(R.w, i, R.r, 1)

\* pow(Expression const&, Expression const&)
ExprPow ==
    \E i, j, k \in Slot :
        /\ Running(1)
        /\ pData[j] # 0 /\ pData[k] # 0
        /\ \E R \in {Invoke2(pow, World, pData[j], pData[k])} :
               Assign(R.w, i, R.r, 1)

\* Expression::Derive: result = pData->derive(r); pData->purge()
PurgeStep(step0, p) == Ret(purge(step0.w, p), step0.r)
Derive(W, p, r) == PurgeStep(Invoke2(derive, W, p, r), p)

ExprDerive ==
    \E i, j \in Slot, x \in Vars :
        /\ Running(1)
        /\ pData[j] # 0
        /\ \E R \in {Derive(World, pData[j], x)} :
               /\ \E W1 \in {Erase(R.w, pData[i])} :
                      Commit(W1, [pData EXCEPT ![i] = R.r], 1)
               /\ last' = <<"Derive", pData[j], x>>
               /\ disciplined' = (disciplined /\ pending = 0)
               /\ UNCHANGED pending

\* Expression::data::derive called on its own: the derivative stays cached
NodeDerive ==
    \E i, j \in Slot, x \in Vars :
        /\ Running(1)
        /\ pData[j] # 0
        /\ i # j
        /\ \E R \in {Invoke2(derive, World, pData[j], x)} :
               /\ \E W1 \in {Erase(R.w, pData[i])} :
                      Commit(W1, [pData EXCEPT ![i] = R.r], 1)
               /\ last' = <<"derive", pData[j], x>>
               /\ disciplined' = (disciplined /\ pending = 0)
               /\ pending' = pData[j]

\* purge() called on its own
NodePurge ==
    \E j \in Slot :
        /\ Running(0)
        /\ pData[j] # 0
        /\ \E W \in {purge(World, pData[j])} : Commit(W, pData, 0)
        /\ pending' = IF pData[j] = pending THEN 0 ELSE pending
        /\ UNCHANGED <<last, disciplined>>

\* Expression::Evaluate
ExprEvaluate ==
    \E j \in Slot :
        /\ Running(1)
        /\ pData[j] # 0
        /\ \E R \in {evaluate(World, pData[j])} :
               /\ Commit(R.w, pData, 1)
               /\ last' = <<"Evaluate", pData[j], R.r>>
        /\ UNCHANGED <<pending, disciplined>>

\* a Touch that forgets to advance the dirty level
Touch_frozen(W) == W

\* Expression::Touch
Touch(W) == [W EXCEPT !.dirtyLevel = @ + 1]

ExprTouch ==
    /\ Running(0)
    /\ dirtyLevel < MaxDirty
    /\ \E W \in {Touch(World)} : Commit(W, pData, 0)
    /\ UNCHANGED <<last, pending, disciplined>>

\* an assignment that invalidates every cached value at once
VariableAssign_eager(W, x, d) ==
    Touch([assert(assert(W, ~isinf(d), "!isinf(d)"), ~isnan(d), "!isnan(d)")
              EXCEPT !.val[x] = d,
                     !.node = [p \in DOMAIN W.node |->
                                  [W.node[p] EXCEPT !.cleanLevel = 0]]])

\* Variable::operator=(double)
VariableAssign(W, x, d) ==
    Touch([assert(assert(W, ~isinf(d), "!isinf(d)"), ~isnan(d), "!isnan(d)")
              EXCEPT !.val[x] = d])

VarAssign(D) ==
    \E x \in Vars, d \in D :
        /\ Running(0)
        /\ dirtyLevel < MaxDirty
        /\ \E W \in {VariableAssign(World, x, d)} : Commit(W, pData, 0)
        /\ UNCHANGED <<last, pending, disciplined>>

\* the inputs of the construction runs
ConstInputs == {Num(0), Num(2), Num(-2), NaN}
UnaryInputs == {"abs", "sqrt", "cosh"}

Next ==
    \/ ExprDefault
    \/ ExprConst(ConstInputs)
    \/ ExprVar(Vars)
    \/ ExprCopy
    \/ ExprDrop
    \/ ExprUnary(UnaryInputs)
    \/ ExprNeg
    \/ ExprAdd
    \/ ExprSub
    \/ ExprMul
    \/ ExprDiv
    \/ ExprPow

Spec == Init /\ [][Next]_vars


\* building, evaluating, touching and assigning variables
EvalConsts == {Num(2)}
EvalUnary == {"abs", "exp"}
VarInputs == {Num(2), PInf, NaN}
NextEval ==
    \/ ExprConst(EvalConsts) \/ ExprVar(Vars) \/ ExprDrop
    \/ ExprUnary(EvalUnary) \/ ExprAdd \/ ExprMul
    \/ ExprEvaluate \/ ExprTouch \/ VarAssign(VarInputs)
SpecEval == Init /\ [][NextEval]_vars

\* building expressions of variables and taking their derivatives
DeriveUnary == {"sin", "exp"}
NextDerive ==
    \/ ExprVar(Vars) \/ ExprCopy \/ ExprDrop
    \/ ExprUnary(DeriveUnary) \/ ExprAdd \/ ExprMul
    \/ ExprDerive
SpecDerive == Init /\ [][NextDerive]_vars

\* the same, with derive and purge called separately on the nodes
NextNode ==
    \/ ExprVar(Vars) \/ ExprDrop
    \/ ExprUnary(DeriveUnary) \/ ExprAdd \/ ExprMul
    \/ NodeDerive \/ NodePurge
SpecNode == Init /\ [][NextNode]_vars

\* expressions built of constants only, with every function of the API
FoldConsts == {Num(0), Num(2), Num(-2)}
NextFold ==
    \/ ExprConst(FoldConsts) \/ ExprCopy \/ ExprDrop
    \/ ExprUnary(ApiFunction) \/ ExprNeg
    \/ ExprAdd \/ ExprSub \/ ExprMul \/ ExprDiv \/ ExprPow
SpecFold == Init /\ [][NextFold]_vars

\* products, quotients and logarithms of variables and constants, and
\* their derivatives
RuleConsts == {Num(1), Num(2)}
RuleUnary == {"log"}
NextRules ==
    \/ ExprConst(RuleConsts) \/ ExprVar(Vars) \/ ExprDrop
    \/ ExprUnary(RuleUnary) \/ ExprMul \/ ExprDiv
    \/ ExprDerive
SpecRules == Init /\ [][NextRules]_vars

(***************************************************************************)
(* The interning tables.                                                   *)
(***************************************************************************)
LiveIds == {p \in Id : node[p].type # "FREE"}

\* two nodes made by the same operation from the same operands
SameKey(p, q) ==
    /\ node[p].type = node[q].type
    /\ CASE node[p].type = "NULL" -> TRUE
         [] node[p].type = "CONSTANT" -> node[p].n = node[q].n
         [] node[p].type = "VARIABLE" -> node[p].x = node[q].x
         [] node[p].type \in {"ADD", "MUL"} ->
              {node[p].f_x, node[p].g_x} = {node[q].f_x, node[q].g_x}
         [] node[p].type = "POW" ->
              node[p].f_x = node[q].f_x /\ node[p].g_x = node[q].g_x
         [] OTHER -> node[p].f_x = node[q].f_x

\* C1: after any sequence of constructions and handle drops no two distinct
\* live nodes stand for the same operation applied to the same operands
C1_InterningUnique ==
    \A p, q \in LiveIds : SameKey(p, q) => p = q

\* two handles were built from the same double and hold different nodes
C1_TwoNodesOneValue ==
    /\ fail = ""
    /\ pData[1] # 0 /\ pData[2] # 0 /\ pData[1] # pData[2]
    /\ node[pData[1]].type = "CONSTANT"
    /\ SameKey(pData[1], pData[2])

\* every entry of every interning table points to a live node
NoDanglingEntry ==
    /\ \A e \in constantNode : e[2] \in LiveIds
    /\ \A e \in variableNode \cup functionNode \cup addNode \cup mulNode \cup powNode :
           e[3] \in LiveIds /\ (e[1] # 0 => e[1] \in LiveIds)

\* C2: no interning entry dangles and no registration or deregistration
\* assertion of a constructor or destructor fails
C2_NoDanglingNoAssert ==
    /\ NoDanglingEntry
    /\ fail = ""

\* the last handle of a constant was dropped and its destructor's assertion failed
C2_DestructorAsserts ==
    /\ fail # ""
    /\ \E e \in constantNode : isnan(e[1])

\* C6: every live constant node holds a finite value
C6_ConstantsFinite ==
    \A p \in LiveIds : node[p].type = "CONSTANT" => isfinite(node[p].n)

\* a handle holds a constant node whose value is not finite
C6_NonFiniteConstant ==
    \E i \in Slot : /\ pData[i] # 0
                    /\ node[pData[i]].type = "CONSTANT"
                    /\ ~isfinite(node[pData[i]].n)

(***************************************************************************)
(* The algebraic rules of the constructors, asked of every live node of    *)
(* every reachable state.                                                  *)
(***************************************************************************)
\* a call that ran to its end within the model's bounds
Done(R) == ~R.w.cut /\ R.w.fail = ""

\* the call returned the node q
Gives(R, q) == Done(R) => R.r = q

\* f(f(x))
Again(Op(_, _), step0) == Op(step0.w, step0.r)
Twice(Op(_, _), W, x) == Again(Op, Invoke1(Op, W, x))

\* the nodes below and including p
RECURSIVE SubNodes(_)
SubNodes(p) ==
    IF p = 0 THEN {}
    ELSE {p} \cup SubNodes(node[p].f_x) \cup SubNodes(node[p].g_x)

\* an expression the specification speaks of: no sentinel in it, and all
\* its constants finite
Proper(p) ==
    \A q \in SubNodes(p) :
        /\ node[q].type # "NULL"
        /\ node[q].type = "CONSTANT" => isfinite(node[q].n)

Held == {pData[i] : i \in Slot} \ {0}

\* C7: every unary function, and add, mul and pow with the sentinel as
\* either operand, return the sentinel, and evaluating an expression that
\* contains the sentinel yields NaN
C7_SentinelAbsorbs ==
    /\ \A f \in Method : Gives(call(World, f, NullInstance), NullInstance)
    /\ \A p \in LiveIds :
           /\ Gives(Invoke2(add, World, NullInstance, p), NullInstance)
           /\ Gives(Invoke2(add, World, p, NullInstance), NullInstance)
           /\ Gives(Invoke2(mul, World, NullInstance, p), NullInstance)
           /\ Gives(Invoke2(mul, World, p, NullInstance), NullInstance)
           /\ Gives(Invoke2(pow, World, NullInstance, p), NullInstance)
           /\ Gives(Invoke2(pow, World, p, NullInstance), NullInstance)
    /\ \A p \in LiveIds :
           NullInstance \in SubNodes(p) =>
               /\ evaluate(World, p).w.fail = ""
               /\ isnan(evaluate(World, p).r)

\* a function node over the sentinel is held by a handle
C7_FunctionOfSentinel ==
    \E p \in Held : /\ node[p].type \in NodeType
                    /\ node[p].f_x = NullInstance
                    /\ evaluate(World, p).w.fail # ""

\* the node kinds C8 lists
C8_Kind(p) == node[p].type \notin {"NULL", "CONSTANT"} /\ Proper(p)

\* C8: x+0, 0+x, x*1, 1*x and x^1 are the node x, x*0 and 0*x the
\* constant 0, x^0 the constant 1, and no live node has such a shape
C8_IdentityElements ==
    /\ \A x \in LiveIds :
           C8_Kind(x) =>
               /\ Gives(Invoke2(add, World, x, literal0), x)
               /\ Gives(Invoke2(add, World, literal0, x), x)
               /\ Gives(Invoke2(mul, World, x, literal1), x)
               /\ Gives(Invoke2(mul, World, literal1, x), x)
               /\ Gives(Invoke2(pow, World, x, literal1), x)
               /\ Gives(Invoke2(mul, World, x, literal0), literal0)
               /\ Gives(Invoke2(mul, World, literal0, x), literal0)
               /\ Gives(Invoke2(pow, World, x, literal0), literal1)
    /\ \A p \in LiveIds :
           /\ node[p].type = "ADD" => literal0 \notin {node[p].f_x, node[p].g_x}
           /\ node[p].type = "MUL" =>
                  {literal0, literal1} \cap {node[p].f_x, node[p].g_x} = {}
           /\ node[p].type = "POW" => node[p].g_x \notin {literal0, literal1}

\* an Invert node x is live and x*0 returns x instead of the constant 0
C8_InvertTimesZero ==
    \E x \in LiveIds :
        /\ node[x].type = "INVERT"
        /\ C8_Kind(x)
        /\ Done(Invoke2(mul, World, x, literal0))
        /\ Invoke2(mul, World, x, literal0).r = x

\* C9: negate(negate(x)) is x, abs(abs(x)) is abs(x), and for x guaranteed
\* non-zero invert(invert(x)) is x
C9_Involutions ==
    \A x \in LiveIds :
        Proper(x) =>
            /\ Gives(Twice(negate, World, x), x)
            /\ Done(Invoke1(abs, World, x)) =>
                   Gives(Twice(abs, World, x), Invoke1(abs, World, x).r)
            /\ guaranteed(World, x, "NONZERO") => Gives(Twice(invert, World, x), x)

\* a Pow node x guaranteed non-zero is held, and invert(invert(x)) is another node
C9_PowInvertedTwice ==
    \E x \in Held :
        /\ node[x].type = "POW"
        /\ Proper(x)
        /\ guaranteed(World, x, "NONZERO")
        /\ Done(Twice(invert, World, x))
        /\ Twice(invert, World, x).r # x

(***************************************************************************)
(* The value cache.                                                        *)
(***************************************************************************)
\* the value functions applied from the leaves up, no cache consulted
RECURSIVE recompute(_, _)
recompute(W, p) ==
    LET t == W.node[p].type
        x == recompute(W, W.node[p].f_x)
        y == recompute(W, W.node[p].g_x)
    IN  CASE t = "CONSTANT" -> W.node[p].n
          [] t = "VARIABLE" -> W.val[W.node[p].x]
          [] t = "ADD" -> d_add(x, y)
          [] t = "MUL" -> IF d_eq(x, Num(0)) \/ d_eq(y, Num(0)) THEN Num(0)
                          ELSE d_mul(x, y)
          [] t = "POW" -> d_pow(x, y)
          [] t = "NULL" -> NaN
          [] OTHER -> cmath(t, x)

\* C3: Evaluate() on any expression returns what a full recomputation from
\* the current variable values returns; a cache stamped with the current
\* dirty level holds that value, and no stamp is ahead of the dirty level,
\* which is at least 1
C3_CacheNeverStale ==
    /\ dirtyLevel >= 1
    /\ \A p \in LiveIds :
           /\ node[p].cleanLevel <= dirtyLevel
           /\ node[p].cleanLevel = dirtyLevel => node[p].valueCache = recompute(World, p)
           /\ Done(evaluate(World, p)) => evaluate(World, p).r = recompute(World, p)

\* a held Add or function node carries a cache that was filled before a
\* variable changed and no longer matches, and Evaluate() recomputes it
C3_StaleCacheRecomputed ==
    \E p \in Held :
        /\ node[p].type \in {"ADD", "ABS", "EXP"}
        /\ node[p].cleanLevel \notin {0, dirtyLevel}
        /\ node[p].valueCache # recompute(World, p)
        /\ Done(evaluate(World, p))
        /\ evaluate(World, p).r = recompute(World, p)

(***************************************************************************)
(* Derivatives.                                                            *)
(***************************************************************************)
\* the expression a node stands for, operands of Add and Mul unordered
RECURSIVE term(_, _)
term(W, p) ==
    LET nd == W.node[p]
        kids == CASE nd.type \in {"ADD", "MUL"} ->
                       {<<0, term(W, nd.f_x)>>, <<0, term(W, nd.g_x)>>}
                  [] nd.type = "POW" ->
                       {<<1, term(W, nd.f_x)>>, <<2, term(W, nd.g_x)>>}
                  [] nd.type \in NodeType -> {<<0, term(W, nd.f_x)>>}
                  [] OTHER -> {}
    IN  <<nd.type, nd.n, nd.x, kids>>

\* the expression a call returned
Term(R) == term(R.w, R.r)

\* the same heap with no derivative cached
Fresh(W) == [W EXCEPT !.node = [i \in Id |-> [W.node[i] EXCEPT !.cachedNode = 0]]]

\* both calls ran to their end and returned the same expression
SameTerm(R, S) == (Done(R) /\ Done(S)) => Term(R) = Term(S)

\* E.Derive(y) after E2.Derive(x)
DeriveAfter(W, E2, x, E, y) == Derive(Derive(W, E2, x).w, E, y)

\* C4: E.Derive(y) returns the derivative in y that it returns in a fresh
\* state, whatever Derive calls were made before on E or on an expression
\* sharing nodes with E
C4_DeriveHistoryIndependent ==
    \A E \in Held : \A y \in Vars :
        /\ SameTerm(Derive(World, E, y), Derive(Fresh(World), E, y))
        /\ \A E2 \in Held : \A x \in Vars :
               SameTerm(DeriveAfter(World, E2, x, E, y), Derive(Fresh(World), E, y))

\* Derive(x) was called on a held expression E whose derivative in the
\* other variable is a different expression
C4_DerivedInOtherVariable ==
    /\ Len(last) = 3 /\ last[1] = "Derive"
    /\ last[2] \in Held
    /\ node[last[2]].type \in {"ADD", "MUL"}
    /\ \E y \in Vars \ {last[3]} :
           /\ Done(Derive(World, last[2], y))
           /\ Done(Derive(World, last[2], last[3]))
           /\ Term(Derive(World, last[2], y)) # Term(Derive(World, last[2], last[3]))

\* C5 as stated: the node-level derive(y) returns the derivative in y
\* whether or not the cached derivatives have been purged
C5_DeriveWithoutPurge ==
    \A E \in Held : \A y \in Vars :
        SameTerm(Invoke2(derive, World, E, y), Invoke2(derive, Fresh(World), E, y))

\* C5: the node-level derive returns a populated cached derivative whatever
\* the variable, and returns the derivative in y when purge was called
\* after every derive
C5_DeriveAfterPurge ==
    \A E \in Held : \A y \in Vars :
        /\ node[E].cachedNode # 0 =>
               Gives(Invoke2(derive, World, E, y), node[E].cachedNode)
        /\ (disciplined /\ pending = 0) =>
               SameTerm(Invoke2(derive, World, E, y), Invoke2(derive, Fresh(World), E, y))

\* derive(x) was called on a held Add or Mul node and purged, and its
\* derivative in the other variable is a different expression
C5_DerivedAndPurged ==
    /\ Len(last) = 3 /\ last[1] = "derive"
    /\ disciplined /\ pending = 0
    /\ last[2] \in Held
    /\ node[last[2]].type \in {"ADD", "MUL"}
    /\ \E y \in Vars \ {last[3]} :
           /\ Done(Invoke2(derive, World, last[2], y))
           /\ Done(Invoke2(derive, Fresh(World), last[2], last[3]))
           /\ Term(Invoke2(derive, World, last[2], y))
                  # Term(Invoke2(derive, Fresh(World), last[2], last[3]))

(***************************************************************************)
(* Constant folding.                                                       *)
(***************************************************************************)
FiniteConstants == {p \in LiveIds : node[p].type = "CONSTANT" /\ isfinite(node[p].n)}

\* the call returned a constant node
GivesConstant(R) == Done(R) => R.w.node[R.r].type = "CONSTANT"

\* C10: every unary function of a finite constant, and the sum, product
\* and power of two finite constants, is a constant node
C10_ConstantFolding ==
    \A c \in FiniteConstants :
        /\ \A f \in Method : GivesConstant(call(World, f, c))
        /\ \A d \in FiniteConstants :
               /\ GivesConstant(Invoke2(add, World, c, d))
               /\ GivesConstant(Invoke2(mul, World, c, d))
               /\ GivesConstant(Invoke2(pow, World, c, d))

\* a handle holds a finite constant that no client passed in and that is
\* no static literal: it was folded
C10_FoldedConstant ==
    \E p \in Held :
        /\ p \in FiniteConstants \ Statics
        /\ node[p].n \notin FoldConsts
        /\ \E f \in ApiFunction : Done(call(World, f, p))

(***************************************************************************)
(* The derivation rules.                                                   *)
(***************************************************************************)
\* C11: the derivative of a constant is the constant-0 node, the
\* derivative of a variable in itself the constant-1 node and in another
\* variable the constant-0 node, whatever values the variables hold
C11_LeafDerivatives ==
    \A p \in LiveIds : \A y \in Vars :
        /\ node[p].type = "CONSTANT" => Gives(Derive(World, p, y), literal0)
        /\ node[p].type = "VARIABLE" =>
               Gives(Derive(World, p, y), IF node[p].x = y THEN literal1 ELSE literal0)

\* both variables are held and hold equal values, a constant is held, and
\* the last call derived a variable
C11_VariableDerived ==
    /\ Len(last) = 3 /\ last[1] = "Derive"
    /\ last[2] \in Held /\ node[last[2]].type = "VARIABLE"
    /\ val["u"] = val["v"]
    /\ \E i \in Slot : pData[i] \in {literal0, literal1}
    /\ \E y \in Vars \ {node[last[2]].x} :
           /\ Done(Derive(World, last[2], y))
           /\ Derive(World, last[2], y).r = literal0

\* the factor that multiplies D(f_x) in the rule of each function node kind
dcmath(fn, x) ==
    CASE fn = "ABS" -> d_sign(x)
      [] fn = "SIGN" -> Num(0)
      [] fn = "SQRT" -> d_div(Num(1), d_mul(Num(2), d_sqrt(x)))
      [] fn = "CBRT" -> d_div(Num(1), d_mul(Num(3), d_mul(d_cbrt(x), d_cbrt(x))))
      [] fn = "EXP" -> d_exp(x)
      [] fn = "LOG" -> d_div(Num(1), x)
      [] fn = "SIN" -> cmath("COS", x)
      [] fn = "COS" -> d_neg(cmath("SIN", x))
      [] fn = "TAN" -> d_div(Num(1), d_mul(cmath("COS", x), cmath("COS", x)))
      [] fn = "SEC" -> d_mul(cmath("TAN", x), cmath("SEC", x))
      [] fn = "ASIN" -> d_div(Num(1), cmath("ZCONIC", x))
      [] fn = "ACOS" -> d_div(Num(-1), cmath("ZCONIC", x))
      [] fn = "ATAN" -> d_div(Num(1), d_add(d_mul(x, x), Num(1)))
      [] fn = "SINH" -> cmath("COSH", x)
      [] fn = "COSH" -> cmath("SINH", x)
      [] fn = "TANH" -> d_div(Num(1), d_mul(cmath("COSH", x), cmath("COSH", x)))
      [] fn = "ASINH" -> d_div(Num(1), cmath("YCONIC", x))
      [] fn = "ACOSH" -> d_div(Num(1), cmath("XCONIC", x))
      [] fn = "ATANH" -> d_div(Num(1), d_sub(Num(1), d_mul(x, x)))
      [] fn = "ERF" -> d_mul(d_div(Num(1), d_exp(d_mul(x, x))), Rat(1, 1, 1))
      [] fn = "INVERT" -> d_neg(d_mul(d_div(Num(1), x), d_div(Num(1), x)))
      [] fn = "NEGATE" -> Num(-1)
      [] fn = "SQUARE" -> d_mul(Num(2), x)
      [] fn = "XCONIC" -> d_div(x, cmath("XCONIC", x))
      [] fn = "YCONIC" -> d_div(x, cmath("YCONIC", x))
      [] fn = "ZCONIC" -> d_div(d_neg(x), cmath("ZCONIC", x))

\* the values the variables are given when two expressions are compared
RuleValues == {Num(0), Num(1), Num(2)}
Assignments == [Vars -> RuleValues]

\* the value of a node, and of a call's result, under an assignment
ValueOf(W, a, p) == recompute([W EXCEPT !.val = a], p)
ValueAt(R, a) == ValueOf(R.w, a, R.r)

\* the expression evaluates to the finite value ref
Agrees(got, ref) == (isfinite(ref) /\ ~isunrep(got)) => got = ref

\* the derivative of what a call returned
DeriveOfStep(step0, y) == Derive(step0.w, step0.r, y)

\* D(f*g), D(f) and D(g) obey the product rule under the assignment a
ProductRule(DP, Df, Dg, W, f, g, a) ==
    (Done(DP) /\ Done(Df) /\ Done(Dg)) =>
        Agrees(ValueAt(DP, a),
               d_add(d_mul(ValueAt(Df, a), ValueOf(W, a, g)),
                     d_mul(ValueOf(W, a, f), ValueAt(Dg, a))))

\* C12: Derive(f*g, y) evaluates to Derive(f, y)*g + f*Derive(g, y) under
\* every assignment of the variables
C12_ProductRule ==
    \A f, g \in Held : \A y \in Vars : \A a \in Assignments :
        ProductRule(DeriveOfStep(Invoke2(mul, World, f, g), y),
                    Derive(World, f, y), Derive(World, g, y), World, f, g, a)

\* a reciprocal 1/u and the other variable are held, and the derivative
\* of their product departs from the product rule
C12_ReciprocalFactor ==
    \E f, g \in Held :
        /\ node[f].type = "INVERT" /\ node[g].type = "VARIABLE"
        /\ node[node[f].f_x].type = "VARIABLE"
        /\ \E y \in Vars : \E a \in Assignments :
               ~ProductRule(DeriveOfStep(Invoke2(mul, World, f, g), y),
                            Derive(World, f, y), Derive(World, g, y), World, f, g, a)

\* D(phi(c)) and D(c) obey the rule of the kind of the function node P,
\* wherever phi(c) is defined
ChainAgrees(D, Dc, P, a) ==
    (Done(D) /\ Done(Dc) /\ isfinite(ValueOf(P.w, a, P.r))) =>
        Agrees(ValueAt(D, a),
               d_mul(dcmath(P.w.node[P.r].type, ValueOf(P.w, a, P.w.node[P.r].f_x)),
                     ValueAt(Dc, a)))

\* the call returned a function node, whose derivative obeys its rule
ChainRule(P, y, a) ==
    (Done(P) /\ P.w.node[P.r].type \in NodeType) =>
        ChainAgrees(DeriveOfStep(P, y), Derive(P.w, P.w.node[P.r].f_x, y), P, a)

\* C13: for every function node kind phi and inner expression f,
\* Derive(phi(f), y) evaluates to phi'(f) * Derive(f, y)
C13_ChainRule ==
    \A f \in Held : \A m \in Method : \A y \in Vars : \A a \in Assignments :
        ChainRule(call(World, m, f), y, a)

\* log(x) of a variable x is held, whose derivative is a reciprocal node,
\* and the derivative of a function of it departs from the chain rule
C13_ReciprocalInnerDerivative ==
    \E f \in Held :
        /\ node[f].type = "LOG" /\ node[node[f].f_x].type = "VARIABLE"
        /\ \E m \in Method : \E y \in Vars : \E a \in Assignments :
               ~ChainRule(call(World, m, f), y, a)

\* the nodes of the expression p of the world W
RECURSIVE Below(_, _)
Below(W, p) ==
    IF p = 0 THEN {}
    ELSE {p} \cup Below(W, W.node[p].f_x) \cup Below(W, W.node[p].g_x)

\* evaluate() of what a call returned, after the variables were given the
\* values a
EvaluateStep(P, a) == evaluate(Touch([P.w EXCEPT !.val = a]), P.r)

\* the second factor of the product node p is no part of the first one
SecondApart(W, p) == W.node[p].g_x \notin Below(W, W.node[p].f_x)

\* the product P of a and b evaluates to 0 when a factor is 0, and a Mul
\* node whose first factor is 0 leaves the second factor unevaluated
ShortCircuit(P, E, W, a, b, s) ==
    (Done(P) /\ Done(E)) =>
        /\ (ValueOf(W, s, a) = Num(0) \/ ValueOf(W, s, b) = Num(0)) => E.r = Num(0)
        /\ (/\ P.w.node[P.r].type = "MUL"
            /\ ValueOf(P.w, s, P.w.node[P.r].f_x) = Num(0)
            /\ SecondApart(P.w, P.r)) =>
               E.w.node[P.w.node[P.r].g_x] = P.w.node[P.w.node[P.r].g_x]

\* what ShortCircuit says of the product of a and b
ShortCircuitOf(P, W, a, b, s) == ShortCircuit(P, EvaluateStep(P, s), W, a, b, s)

\* C14: a * b evaluates to exactly 0 whenever a or b evaluates to 0,
\* whatever the other factor is, and a first factor 0 leaves the second
\* factor's evaluate() uncalled
C14_ZeroShortCircuit ==
    \A a, b \in Held : \A s \in Assignments :
        ShortCircuitOf(Invoke2(mul, World, a, b), World, a, b, s)

\* a reciprocal 1/u and a variable are held, the variable is 0, and their
\* product does not evaluate to 0
C14_ReciprocalTimesZero ==
    \E a, b \in Held :
        /\ node[a].type = "INVERT" /\ node[b].type = "VARIABLE"
        /\ node[node[a].f_x].type = "VARIABLE"
        /\ \E s \in Assignments :
               /\ ValueOf(World, s, b) = Num(0)
               /\ ~ShortCircuitOf(Invoke2(mul, World, a, b), World, a, b, s)

(***************************************************************************)
(* AtomicAssign: a batch of variables written from a snapshot.             *)
(***************************************************************************)
\* writing the pairs one after the other: each right-hand side is
\* evaluated after the writes before it
RECURSIVE SequentialFrom(_, _, _)
SequentialFrom(W, L, k) ==
    IF k > Len(L) THEN W
    ELSE Let([e \in {evaluate(W, L[k][2])} |->
             SequentialFrom(VariableAssign(e.w, L[k][1], e.r), L, k + 1)])

SequentialAssign(W, L) == SequentialFrom(W, L, 1)

\* the right-hand sides of the pairs L[k], L[k+1], ... evaluated to numbers
RECURSIVE Snapshot(_, _, _)
Snapshot(W, L, k) ==
    IF k > Len(L) THEN Ret(W, <<>>)
    ELSE Let([e \in {evaluate(W, L[k][2])} |->
         Let([rest \in {Snapshot(e.w, L, k + 1)} |->
             Ret(rest.w, <<e.r>> \o rest.r)])])

\* the numbers written back to the variables of the pairs
RECURSIVE WriteBack(_, _, _, _)
WriteBack(W, L, d, k) ==
    IF k > Len(L) THEN W
    ELSE WriteBack(VariableAssign(W, L[k][1], d[k]), L, d, k + 1)

\* what was snapshot is written back
WriteStep(snap, L) == WriteBack(snap.w, L, snap.r, 1)

\* AtomicAssign(list): snapshot all right-hand sides, then write them
AtomicAssign(W, L) == WriteStep(Snapshot(W, L, 1), L)

\* the lists of pairs (variable, held expression), no variable twice
Binding == Vars \X Held
Bindings ==
    {<<b>> : b \in Binding}
        \cup {<<b[1], b[2]>> : b \in {c \in Binding \X Binding : c[1][1] # c[2][1]}}

AtomicAssignStep ==
    \E L \in Bindings :
        /\ Running(1)
        /\ dirtyLevel + Len(L) <= MaxDirty
        /\ \E W \in {AtomicAssign(World, L)} : Commit(W, pData, 1)
        /\ last' = <<"AtomicAssign", L, val>>
        /\ UNCHANGED <<pending, disciplined>>

\* the state after Variable u("u", d), v("v", e)
AssignInputs == {Num(1), Num(2)}
InitAssign ==
    /\ node = [i \in Id |-> IF i \in Statics THEN StaticNode(i) ELSE FreeNode]
    /\ constantNode = {<<StaticNode(i).n, i>> : i \in Statics \ {NullInstance}}
    /\ variableNode = {}
    /\ functionNode = {}
    /\ addNode = {}
    /\ mulNode = {}
    /\ powNode = {}
    /\ dirtyLevel = 1
    /\ val \in [Vars -> AssignInputs]
    /\ pData = [i \in Slot |-> 0]
    /\ fail = ""
    /\ last = <<>>
    /\ pending = 0
    /\ disciplined = TRUE
    /\ ops = 0

\* sums of variables and constants, assigned to the variables
NextAssign ==
    \/ ExprConst(EvalConsts) \/ ExprVar(Vars) \/ ExprDrop \/ ExprAdd
    \/ VarAssign(AssignInputs) \/ AtomicAssignStep
SpecAssign == InitAssign /\ [][NextAssign]_vars

\* the variable of a pair of L gets the value its right-hand side had in
\* W, every other variable keeps its value
Written(W, L, x) ==
    IF \E k \in 1..Len(L) : L[k][1] = x
    THEN ValueOf(W, W.val, L[CHOOSE k \in 1..Len(L) : L[k][1] = x][2])
    ELSE W.val[x]

Simultaneous(W1, W, L) ==
    (W1.fail = "" /\ ~W1.cut) => \A x \in Vars : W1.val[x] = Written(W, L, x)

\* the pairs of L in the opposite order
Swapped(L) == [k \in 1..Len(L) |-> L[Len(L) + 1 - k]]

SameValues(W1, W2) ==
    (W1.fail = "" /\ ~W1.cut /\ W2.fail = "" /\ ~W2.cut) => W1.val = W2.val

\* the second right-hand side of L is the variable written first, and
\* the first write changes that variable
MentionsEarlier(W, L) ==
    /\ Len(L) = 2
    /\ W.node[L[2][2]].type = "VARIABLE" /\ W.node[L[2][2]].x = L[1][1]
    /\ ValueOf(W, W.val, L[1][2]) # W.val[L[1][1]]

Differs(W1, W2) ==
    (W1.fail = "" /\ ~W1.cut /\ W2.fail = "" /\ ~W2.cut) => W1.val # W2.val

WriteInputs == {d \in VarInputs \cup RuleValues : isfinite(d)}

\* W1 is W but for the value of x, which is d, and the dirty level, which
\* is one more
WriteFrame(W1, W, x, d) ==
    /\ W1.fail = W.fail /\ W1.cut = W.cut
    /\ W1.val = [W.val EXCEPT ![x] = d]
    /\ W1.dirtyLevel = W.dirtyLevel + 1
    /\ W1.node = W.node
    /\ W1.constantNode = W.constantNode /\ W1.variableNode = W.variableNode
    /\ W1.functionNode = W.functionNode /\ W1.addNode = W.addNode
    /\ W1.mulNode = W.mulNode /\ W1.powNode = W.powNode

\* C17: assigning a finite real to a variable changes that variable's
\* value and adds one to the dirty level, and nothing else: no node (its
\* reference count, cached derivative, cached value and stamp included)
\* and no interning table changes, and no other variable's value
C17_VariableWriteFrame ==
    \A x \in Vars : \A d \in WriteInputs :
        WriteFrame(Invoke2(VariableAssign, World, x, d), World, x, d)

\* a variable was assigned, and a held expression of it still carries the
\* value cached before the assignment, stamped with the earlier level
C17_StaleCacheInPlace ==
    \E p \in Held : \E x \in Vars :
        /\ fail = ""
        /\ val[x] # Num(0)
        /\ \E q \in Below(World, p) : node[q].type = "VARIABLE" /\ node[q].x = x
        /\ node[p].cleanLevel > 0 /\ node[p].cleanLevel < dirtyLevel
        /\ node[p].valueCache = ValueOf(World, [val EXCEPT ![x] = Num(0)], p)
        /\ node[p].valueCache # ValueOf(World, val, p)

(***************************************************************************)
(* Depth().                                                                *)
(***************************************************************************)
\* the depth of the node p follows from its kind and its children, a
\* variable node having the depth v
DepthRule(W, p, v) ==
    CASE W.node[p].type \in {"CONSTANT", "NULL"} -> W.node[p].depth = 0
      [] W.node[p].type = "VARIABLE" -> W.node[p].depth = v
      [] W.node[p].type \in NodeType ->
             W.node[p].depth = 1 + W.node[W.node[p].f_x].depth
      [] W.node[p].type \in {"ADD", "MUL", "POW"} ->
             W.node[p].depth =
                 1 + Max(W.node[W.node[p].f_x].depth, W.node[W.node[p].g_x].depth)
      [] OTHER -> TRUE

\* C18 as stated: Depth() is 0 for every leaf (constant, variable, empty
\* expression) and 1 + the maximum child depth for every function and
\* operator node
C18_LeafDepthZero == \A p \in LiveIds : DepthRule(World, p, 0)

\* C18: Depth() is 0 for a constant and for the empty expression, 1 for a
\* variable, and 1 + the maximum child depth for every function and
\* operator node
C18_DepthDefinition == \A p \in LiveIds : DepthRule(World, p, 1)

\* an operator node is held whose operands differ in depth, the first one
\* being the shallower, with a variable below it
C18_UnevenOperands ==
    \E p \in Held :
        /\ node[p].type \in {"ADD", "MUL", "POW"}
        /\ node[node[p].f_x].depth < node[node[p].g_x].depth
        /\ \E q \in Below(World, p) : node[q].type = "VARIABLE"

(***************************************************************************)
(* Products of reciprocals.                                                *)
(***************************************************************************)
\* (1/x) * (1/y), as operator/ and operator* build it
ReciprocalProduct(W, x, y) ==
    Let([ix \in {call(W, "invert", x)} |->
    Let([iy \in {call(ix.w, "invert", y)} |->
        Invoke2(mul, iy.w, ix.r, iy.r)])])

\* P is a reciprocal node over the product node of x and y
Fusion(P, x, y) ==
    Done(P) =>
        /\ P.w.node[P.r].type = "INVERT"
        /\ P.w.node[P.w.node[P.r].f_x].type = "MUL"
        /\ {P.w.node[P.w.node[P.r].f_x].f_x, P.w.node[P.w.node[P.r].f_x].g_x} = {x, y}

\* C19: for distinct plain variables x and y, (1/x) * (1/y) is the node
\* 1/(x*y): an Invert node over the interned product of x and y
C19_ReciprocalFusion ==
    \A x, y \in Held :
        (x # y /\ node[x].type = "VARIABLE" /\ node[y].type = "VARIABLE") =>
            Fusion(ReciprocalProduct(World, x, y), x, y)

\* two variables are held, and the product of their reciprocals is a
\* reciprocal node over the product of one variable and the reciprocal of
\* the reciprocal of the other
C19_ReciprocalOfReciprocalKept ==
    \E x, y \in Held :
        /\ x # y /\ node[x].type = "VARIABLE" /\ node[y].type = "VARIABLE"
        /\ \E P \in {ReciprocalProduct(World, x, y)} :
               /\ Done(P)
               /\ P.w.node[P.r].type = "INVERT"
               /\ P.w.node[P.w.node[P.r].f_x].type = "MUL"
               /\ \E c \in {P.w.node[P.w.node[P.r].f_x].f_x,
                            P.w.node[P.w.node[P.r].f_x].g_x} :
                      /\ P.w.node[c].type = "INVERT"
                      /\ P.w.node[P.w.node[c].f_x].type = "INVERT"
                      /\ P.w.node[P.w.node[c].f_x].f_x \in {x, y}

(***************************************************************************)
(* What the attributes say of an expression.                               *)
(***************************************************************************)
\* the attributes that speak of the value at one assignment
Pointwise ==
    {"DEFINED", "NONZERO", "POSITIVE", "NEGATIVE", "NONPOSITIVE", "NONNEGATIVE",
     "UNITRANGE", "ANTIUNITRANGE", "OPENUNITRANGE", "ANTIOPENUNITRANGE"}

\* the attributes that speak of the values next to an assignment
Local == {"CONTINUOUS", "INCREASING", "DECREASING", "NONINCREASING", "NONDECREASING"}

\* the attribute A holds of the value v
HoldsAt(A, v) ==
    isfinite(v) /\
    CASE A = "NONZERO" -> v # Num(0)
      [] A = "POSITIVE" -> d_lt(Num(0), v)
      [] A = "NEGATIVE" -> d_lt(v, Num(0))
      [] A = "NONPOSITIVE" -> d_le(v, Num(0))
      [] A = "NONNEGATIVE" -> d_le(Num(0), v)
      [] A = "UNITRANGE" -> d_le(d_abs(v), Num(1))
      [] A = "ANTIUNITRANGE" -> d_lt(Num(1), d_abs(v))
      [] A = "OPENUNITRANGE" -> d_lt(d_abs(v), Num(1))
      [] A = "ANTIOPENUNITRANGE" -> d_le(Num(1), d_abs(v))
      [] OTHER -> TRUE

\* A one-sided limit <<l, t>>: the values of an expression tend to l as one
\* variable tends to its value from one side, from above (t = 1), from
\* below (t = -1), or being l throughout (t = 0).  NoLimit where the rules
\* below do not determine it.
NoLimit == <<Unrep, 0>>
Known(g) == isfinite(g[1])

\* the side from which a sum of two differences of sides s and t tends to 0
Mix(s, t) == IF s = 0 THEN t ELSE IF t = 0 \/ t = s THEN s ELSE 2

Tends(l, t) == IF t = 2 \/ ~isfinite(l) THEN NoLimit ELSE <<l, t>>

AddLimit(f, g) ==
    IF Known(f) /\ Known(g) THEN Tends(d_add(f[1], g[1]), Mix(f[2], g[2])) ELSE NoLimit

MulLimit(f, g) ==
    IF Known(f) /\ Known(g)
    THEN Tends(d_mul(f[1], g[1]),
               IF f[1] = Num(0) /\ g[1] = Num(0) THEN f[2] * g[2]
               ELSE Mix(f[2] * Sgn(g[1]), g[2] * Sgn(f[1])))
    ELSE NoLimit

AbsLimit(f) ==
    IF Known(f)
    THEN <<d_abs(f[1]), IF f[1] = Num(0) THEN f[2] * f[2] ELSE f[2] * Sgn(f[1])>>
    ELSE NoLimit

SignLimit(f) ==
    IF Known(f) THEN <<Num(IF f[1] = Num(0) THEN f[2] ELSE Sgn(f[1])), 0>> ELSE NoLimit

InvertLimit(f) ==
    IF Known(f) /\ f[1] # Num(0) THEN Tends(d_div(Num(1), f[1]), -f[2]) ELSE NoLimit

NegateLimit(f) == IF Known(f) THEN <<d_neg(f[1]), -f[2]>> ELSE NoLimit

\* the limit of the expression p as the variable x tends to a[x] from the
\* side dir, the other variables being as in a
RECURSIVE limit(_, _, _, _, _)
limit(W, a, x, dir, p) ==
    CASE W.node[p].type = "CONSTANT" -> Tends(W.node[p].n, 0)
      [] W.node[p].type = "VARIABLE" ->
             <<a[W.node[p].x], IF W.node[p].x = x THEN dir ELSE 0>>
      [] W.node[p].type = "NEGATE" -> NegateLimit(limit(W, a, x, dir, W.node[p].f_x))
      [] W.node[p].type = "ABS" -> AbsLimit(limit(W, a, x, dir, W.node[p].f_x))
      [] W.node[p].type = "SIGN" -> SignLimit(limit(W, a, x, dir, W.node[p].f_x))
      [] W.node[p].type = "INVERT" -> InvertLimit(limit(W, a, x, dir, W.node[p].f_x))
      [] W.node[p].type = "SQUARE" ->
             MulLimit(limit(W, a, x, dir, W.node[p].f_x),
                      limit(W, a, x, dir, W.node[p].f_x))
      [] W.node[p].type = "ADD" ->
             AddLimit(limit(W, a, x, dir, W.node[p].f_x),
                      limit(W, a, x, dir, W.node[p].g_x))
      [] W.node[p].type = "MUL" ->
             MulLimit(limit(W, a, x, dir, W.node[p].f_x),
                      limit(W, a, x, dir, W.node[p].g_x))
      [] OTHER -> NoLimit

\* the variables the expression p mentions
Mentioned(W, p) == {W.node[q].x : q \in {r \in Below(W, p) : W.node[r].type = "VARIABLE"}}

\* the attribute A agrees with the value v at an assignment and the limit
\* g from the side dir in a variable; m: it is the one variable the
\* expression mentions
HoldsNear(A, v, g, dir, m) ==
    (Known(g) /\ isfinite(v) /\ isfinite(d_sub(g[1], v))) =>
        CASE A = "CONTINUOUS" -> g[1] = v
          [] A = "INCREASING" -> m => (g[1] = v /\ g[2] = dir) \/ d_lt(Num(0), d_mul(Num(dir), d_sub(g[1], v)))
          [] A = "DECREASING" -> m => (g[1] = v /\ g[2] = -dir) \/ d_lt(d_mul(Num(dir), d_sub(g[1], v)), Num(0))
          [] A = "NONDECREASING" -> (g[1] = v /\ g[2] \in {0, dir}) \/ d_lt(Num(0), d_mul(Num(dir), d_sub(g[1], v)))
          [] A = "NONINCREASING" -> (g[1] = v /\ g[2] \in {0, -dir}) \/ d_lt(d_mul(Num(dir), d_sub(g[1], v)), Num(0))
          [] OTHER -> TRUE

\* the values given to the variables
Samples == {Num(-1), Num(0), Num(1), Num(2)}
SampleAssignments == [Vars -> Samples]

\* every attribute the node p is guaranteed to have holds of it, at the
\* sampled assignments and next to them
Conservative(W, p) ==
    \A A \in Pointwise \cup Local :
        guaranteed(W, p, A) =>
            \A a \in SampleAssignments :
                /\ (A \in Pointwise /\ ~isunrep(ValueOf(W, a, p))) => HoldsAt(A, ValueOf(W, a, p))
                /\ A \in Local =>
                       \A x \in Vars : \A dir \in {-1, 1} :
                           HoldsNear(A, ValueOf(W, a, p), limit(W, a, x, dir, p), dir,
                                     Mentioned(W, p) = {x})

ConservativeOf(R) == Done(R) => Conservative(R.w, R.r)

\* sums, negations, absolute values and signs of variables and the constant 1
AttrConsts == {Num(1)}
AttrUnary == {"abs", "sign"}
NextAttr ==
    \/ ExprConst(AttrConsts) \/ ExprVar(Vars) \/ ExprDrop
    \/ ExprUnary(AttrUnary) \/ ExprNeg \/ ExprAdd
SpecAttr == Init /\ [][NextAttr]_vars

\* the function m of what a call returned
Then(S, m) == IF Done(S) THEN call(S.w, m, S.r) ELSE S

\* the functions whose one-sided limits limit() follows
LimitMethods == {"invert", "negate", "abs", "sign", "square"}

\* C21: what guaranteed() answers of a held expression, of a function of
\* it and of a function of a sum of two held expressions holds of that
\* expression: a value attribute at every sampled assignment, CONTINUOUS
\* and the monotonicity attributes next to every sampled assignment
C21_Conservative ==
    \A p \in Held :
        /\ Conservative(World, p)
        /\ \A m \in Method : ConservativeOf(call(World, m, p))
        /\ \A m \in LimitMethods : \A q \in Held :
               ConservativeOf(Then(Invoke2(add, World, p, q), m))

\* abs(sign(x)) and the constant 1 are held; the reciprocal of their sum
\* is guaranteed CONTINUOUS, and its value where x is 0 is not its limit
C21_ReciprocalOfJump ==
    \E p, q \in Held :
        /\ node[p].type = "ABS" /\ node[node[p].f_x].type = "SIGN"
        /\ node[node[node[p].f_x].f_x].type = "VARIABLE"
        /\ node[q].type = "CONSTANT" /\ node[q].n = Num(1)
        /\ \E R \in {Then(Invoke2(add, World, p, q), "invert")} :
               /\ Done(R)
               /\ R.w.node[R.r].type = "INVERT"
               /\ guaranteed(R.w, R.r, "CONTINUOUS")
               /\ \E a \in SampleAssignments : \E x \in Vars :
                      /\ a[x] = Num(0)
                      /\ Known(limit(R.w, a, x, 1, R.r))
                      /\ limit(R.w, a, x, 1, R.r)[1] = Rat(1, 2, 0)
                      /\ ValueOf(R.w, a, R.r) = Num(1)

(***************************************************************************)
(* Printing.                                                               *)
(***************************************************************************)
Digit == <<"0", "1", "2", "3", "4", "5", "6", "7", "8", "9">>

\* the decimal digits of a natural number
RECURSIVE Digits(_)
Digits(i) == IF i < 10 THEN Digit[i + 1] ELSE Digits(i \div 10) \o Digit[(i % 10) + 1]

\* the last k digits of s
RECURSIVE Padded(_, _)
Padded(s, k) == IF k = 0 THEN "" ELSE Padded(s \div 10, k - 1) \o Digit[(s % 10) + 1]

\* the k decimals of s / 10^k (s > 0), trailing zeros removed
RECURSIVE Decimals(_, _)
Decimals(s, k) == IF s % 10 = 0 THEN Decimals(s \div 10, k - 1) ELSE Padded(s, k)

\* 10^k
RECURSIVE Ten(_)
Ten(k) == IF k = 0 THEN 1 ELSE 10 * Ten(k - 1)

\* a number s / 10^k in fixed notation
Fixed(s, k) ==
    Digits(s \div Ten(k)) \o
    (IF s % Ten(k) = 0 THEN "" ELSE "." \o Decimals(s % Ten(k), k))

\* the positive double (n/d) * K^e rounded to six significant digits:
\* five decimals from 1 up, six decimals below 1 (the model's numbers lie
\* between 1/10 and 10)
Significant(n, d, e) ==
    IF n * KScale(e) >= d * KScale(0)
    THEN Fixed((2 * n * KScale(e) + 10 * d) \div (20 * d), 5)
    ELSE Fixed((2 * n * KScale(e) + d) \div (2 * d), 6)

\* operator<<(std::ostream&, double) with the stream's default format
Format(x) ==
    CASE x = NaN -> "nan"
      [] x = PInf -> "inf"
      [] x = NInf -> "-inf"
      [] x[1] = 0 -> "0"
      [] x[1] < 0 -> "-" \o Significant(-x[1], x[2], x[3])
      [] OTHER -> Significant(x[1], x[2], x[3])

\* the name a function node prints before its operand
Spelling(t) ==
    CASE t = "ABS" -> "abs" [] t = "SIGN" -> "sign" [] t = "SQRT" -> "sqrt"
      [] t = "CBRT" -> "cbrt" [] t = "EXP" -> "exp" [] t = "LOG" -> "log"
      [] t = "SIN" -> "sin" [] t = "COS" -> "cos" [] t = "TAN" -> "tan"
      [] t = "SEC" -> "sec" [] t = "ASIN" -> "asin" [] t = "ACOS" -> "acos"
      [] t = "ATAN" -> "atan" [] t = "SINH" -> "sinh" [] t = "COSH" -> "cosh"
      [] t = "TANH" -> "tanh" [] t = "ASINH" -> "asinh" [] t = "ACOSH" -> "acosh"
      [] t = "ATANH" -> "atanh" [] t = "ERF" -> "erf" [] t = "XCONIC" -> "xconic"
      [] t = "YCONIC" -> "yconic" [] t = "ZCONIC" -> "zconic"
      [] OTHER -> "1/"

\* text between parentheses when the operand is of one of the types
Wrapped(text, t, types) == IF t \in types THEN "(" \o text \o ")" ELSE text

\* print() of every node type
RECURSIVE print(_, _)
print(W, p) ==
    Let([nd \in {W.node[p]} |->
        CASE nd.type = "NULL" -> ""
          [] nd.type = "CONSTANT" -> Format(nd.n)
          [] nd.type = "VARIABLE" -> nd.x
          [] nd.type = "NEGATE" ->
               "-" \o Wrapped(print(W, nd.f_x), W.node[nd.f_x].type, {"ADD"})
          [] nd.type = "SQUARE" ->
               Wrapped(print(W, nd.f_x), W.node[nd.f_x].type, {"ADD", "MUL"}) \o "^2"
          [] nd.type = "ADD" -> print(W, nd.f_x) \o "+" \o print(W, nd.g_x)
          [] nd.type = "MUL" ->
               Wrapped(print(W, nd.f_x), W.node[nd.f_x].type, {"ADD", "POW"})
               \o "*" \o
               Wrapped(print(W, nd.g_x), W.node[nd.g_x].type, {"ADD", "POW"})
          [] nd.type = "POW" ->
               Wrapped(print(W, nd.f_x), W.node[nd.f_x].type, {"ADD", "MUL", "POW"})
               \o "^" \o
               Wrapped(print(W, nd.g_x), W.node[nd.g_x].type, {"ADD", "MUL", "POW"})
          [] OTHER -> Spelling(nd.type) \o "(" \o print(W, nd.f_x) \o ")"])

\* operator<<(std::ostream&, Expression const&)
ExprPrint ==
    \E j \in Slot :
        /\ Running(0)
        /\ pData[j] # 0
        /\ last' = <<"print", pData[j], print(World, pData[j])>>
        /\ UNCHANGED <<node, constantNode, variableNode, functionNode, addNode,
                       mulNode, powNode, dirtyLevel, val, pData, fail, pending,
                       disciplined, ops>>

\* building expressions with the operators and printing them
PrintConsts == {Num(2), Rat(1, 2, 0)}
PrintUnary == {"invert", "square"}
NextPrint ==
    \/ ExprConst(PrintConsts) \/ ExprVar(Vars) \/ ExprDrop
    \/ ExprUnary(PrintUnary) \/ ExprNeg
    \/ ExprAdd \/ ExprMul \/ ExprPow
    \/ ExprPrint
SpecPrint == Init /\ [][NextPrint]_vars

\* the text and the structure of the expression a call returned
Shown(R) == <<print(R.w, R.r), Term(R)>>

\* the held expressions, their operands, and what one more operator makes
\* of them
Operands == UNION {Below(World, p) : p \in Held}
Printable ==
    {Ret(World, p) : p \in Operands}
    \cup {R \in {Invoke1(negate, World, p) : p \in Operands} : Done(R)}
    \cup {R \in {Invoke2(pow, World, p, q) : p, q \in Operands} : Done(R)}
    \cup {R \in {Invoke2(mul, World, p, q) : p, q \in Operands} : Done(R)}
    \cup {R \in {Invoke2(add, World, p, q) : p, q \in Operands} : Done(R)}

\* C22: two expressions that print to the same text are the same expression
C22_PrintUnambiguous ==
    \A R, S \in Printable : print(R.w, R.r) = print(S.w, S.r) => Term(R) = Term(S)

\* -u and u^v are held: (-u)^v and -(u^v) both print as -u^v
C22_NegatedPower ==
    \E p, q \in Held :
        /\ node[p].type = "NEGATE" /\ node[node[p].f_x].type = "VARIABLE"
        /\ node[q].type = "POW" /\ node[q].f_x = node[p].f_x
        /\ node[node[q].g_x].type = "VARIABLE"
        /\ \E R \in {Invoke2(pow, World, p, node[q].g_x)} :
           \E S \in {Invoke1(negate, World, q)} :
               /\ Done(R) /\ Done(S)
               /\ R.w.node[R.r].type = "POW" /\ S.w.node[S.r].type = "NEGATE"
               /\ print(R.w, R.r) = "-u^v"
               /\ print(S.w, S.r) = "-u^v"


(***************************************************************************)
(* Commutativity of the constructors.                                      *)
(***************************************************************************)
\* the same heap in a build whose stack guard is l
Guarded(W, l) == [W EXCEPT !.limit = l]

\* p + q and q + p are the same expression
AddCommutes(W, p, q) ==
    SameTerm(Invoke2(add, W, p, q), Invoke2(add, W, q, p))

\* the same of c + p and q, for a constant c
SumCommutes(W, c, p, q) ==
    \A A \in {Invoke2(add, W, c, p)} : Done(A) => AddCommutes(A.w, A.r, q)

\* C23: a + b and b + a are the same node, for held expressions and for
\* the sum of the constant 1 and a held expression, in a build whose sums
\* stay below the stack guard and in a build whose guard is 1
C23_AddCommutes ==
    \A l \in {STACK_LIMIT, 1} : \A p, q \in Held :
        /\ AddCommutes(Guarded(World, l), p, q)
        /\ SumCommutes(Guarded(World, l), literal1, p, q)

\* u and u + v are held and the guard is 1: (1 + u) + (u + v) is the sum of
\* its two operands, (u + v) + (1 + u) is the sum of u and 1 + (u + v)
C23_GuardedSums ==
    \E p, q \in Held :
        /\ node[p].type = "VARIABLE"
        /\ node[q].type = "ADD" /\ p \in {node[q].f_x, node[q].g_x}
        /\ \E A \in {Invoke2(add, Guarded(World, 1), literal1, p)} :
               /\ Done(A)
               /\ A.w.node[A.r].depth > A.w.limit
               /\ \E R \in {Invoke2(add, A.w, A.r, q)} :
                  \E S \in {Invoke2(add, A.w, q, A.r)} :
                      /\ Done(R) /\ Done(S)
                      /\ {R.w.node[R.r].f_x, R.w.node[R.r].g_x} = {A.r, q}
                      /\ p \in {S.w.node[S.r].f_x, S.w.node[S.r].g_x}
                      /\ Term(R) # Term(S)


\* p * q and q * p are the same expression
MulCommutes(W, p, q) ==
    SameTerm(Invoke2(mul, W, p, q), Invoke2(mul, W, q, p))

\* C24: a * b and b * a are the same node, for held expressions
C24_MulCommutes ==
    \A p, q \in Held : MulCommutes(World, p, q)

\* -u and v are held: (-u) * v is the negation of u * v, v * (-u) is a
\* product with the operand -u
C24_NegatedFactor ==
    \E p, q \in Held :
        /\ node[p].type = "NEGATE" /\ node[node[p].f_x].type = "VARIABLE"
        /\ node[q].type = "VARIABLE" /\ q # node[p].f_x
        /\ \E R \in {Invoke2(mul, World, p, q)} :
           \E S \in {Invoke2(mul, World, q, p)} :
               /\ Done(R) /\ Done(S)
               /\ R.w.node[R.r].type = "NEGATE"
               /\ R.w.node[R.w.node[R.r].f_x].type = "MUL"
               /\ S.w.node[S.r].type = "MUL"
               /\ p \in {S.w.node[S.r].f_x, S.w.node[S.r].g_x}

(***************************************************************************)
(* The empty expression.                                                   *)
(***************************************************************************)
\* the call ran to its end and returned the node p, building no node
Yields(R, W, p) ==
    Done(R) => /\ R.r = p
               /\ \A i \in Id : W.node[i].type = "FREE" <=> R.w.node[i].type = "FREE"

\* no sum or product has the empty expression as an operand
NoEmptyOperand(W) ==
    \A i \in Id : W.node[i].type \in {"ADD", "MUL"} =>
        NullInstance \notin {W.node[i].f_x, W.node[i].g_x}

\* C25: the sum and the product of the empty expression and a held
\* expression, on either side, is that expression, and no sum or product
\* has the empty expression as an operand
C25_EmptyIsNeutral ==
    /\ NoEmptyOperand(World)
    /\ \A p \in Held :
           /\ Yields(Invoke2(add, World, NullInstance, p), World, p)
           /\ Yields(Invoke2(add, World, p, NullInstance), World, p)
           /\ Yields(Invoke2(mul, World, NullInstance, p), World, p)
           /\ Yields(Invoke2(mul, World, p, NullInstance), World, p)

\* a sum or a product of a variable and the empty expression is held
C25_EmptyOperand ==
    \E p \in Held :
        /\ node[p].type \in {"ADD", "MUL"}
        /\ NullInstance \in {node[p].f_x, node[p].g_x}
        /\ node[node[p].f_x].type = "VARIABLE" \/ node[node[p].g_x].type = "VARIABLE"


(***************************************************************************)
(* The derivative caches after Expression::Derive.                         *)
(***************************************************************************)
\* the nodes that hold a cached derivative
Cached(W) == {i \in Id : W.node[i].type # "FREE" /\ W.node[i].cachedNode # 0}

\* E.Derive(y) ran to its end and left no cached derivative
DeriveLeavesNone(W, E, y) ==
    \A R \in {Derive(W, E, y)} : Done(R) => Cached(R.w) = {}

\* the same of the function m of E
DeriveOfLeavesNone(W, m, E, y) ==
    \A S \in {call(W, m, E)} : Done(S) => DeriveLeavesNone(S.w, S.r, y)

\* the functions whose derivative is taken of a held expression
PurgeMethods == {"sign", "abs", "square", "sqrt", "log"}

\* C26: no node holds a cached derivative, and none does after Derive of a
\* held expression, of a function of it, or of the sum or product of two
\* held expressions
C26_NoCacheAfterDerive ==
    /\ Cached(World) = {}
    /\ \A E \in Held : \A y \in Vars :
           /\ DeriveLeavesNone(World, E, y)
           /\ \A m \in PurgeMethods : DeriveOfLeavesNone(World, m, E, y)
           /\ \A F \in Held :
                  /\ \A S \in {Invoke2(add, World, E, F)} :
                         Done(S) => DeriveLeavesNone(S.w, S.r, y)
                  /\ \A S \in {Invoke2(mul, World, E, F)} :
                         Done(S) => DeriveLeavesNone(S.w, S.r, y)

\* Derive was called on a held function E of a variable and left no cached
\* derivative; E and another held expression F share the variable, derive
\* of E + F caches a derivative on the sum, on E, on F and on the variable,
\* and Derive of E + F leaves none
C26_SharedNodePurged ==
    /\ Len(last) = 3 /\ last[1] = "Derive"
    /\ last[2] \in Held
    /\ node[last[2]].type \in NodeType
    /\ Cached(World) = {}
    /\ \E F \in Held \ {last[2]} :
       \E c \in (Below(World, last[2]) \cap Below(World, F)) \ {last[2], F} :
       \E S \in {Invoke2(add, World, last[2], F)} :
           /\ Done(S)
           /\ S.w.node[S.r].type = "ADD"
           /\ \E R \in {Invoke2(derive, S.w, S.r, last[3])} :
                  /\ Done(R)
                  /\ {S.r, last[2], F, c} \subseteq Cached(R.w)
           /\ \E R \in {Derive(S.w, S.r, last[3])} :
                  /\ Done(R)
                  /\ Cached(R.w) = {}


(***************************************************************************)
(* The value of a product.                                                 *)
(***************************************************************************)
\* a finite value other than 0
FiniteNonZero(x) == isfinite(x) /\ x # Num(0)

\* what operator* returned evaluates to the product of the values of a
\* and b under the assignment s, when both are finite and not 0
IsProduct(P, W, a, b, s) ==
    (Done(P) /\ FiniteNonZero(ValueOf(W, s, a)) /\ FiniteNonZero(ValueOf(W, s, b))) =>
        Agrees(ValueAt(P, s), d_mul(ValueOf(W, s, a), ValueOf(W, s, b)))

\* C27: (a * b).Evaluate() is a.Evaluate() * b.Evaluate() for held a and b
\* and every assignment under which both are finite and not 0
C27_ProductValue ==
    \A a, b \in Held : \A s \in Assignments :
        IsProduct(Invoke2(mul, World, a, b), World, a, b, s)

\* a reciprocal 1/u and a variable v are held and u = v = 2: operator*
\* returns their sum, whose value is 5/2
C27_ReciprocalTimesVariable ==
    \E a, b \in Held :
        /\ node[a].type = "INVERT" /\ node[b].type = "VARIABLE"
        /\ node[node[a].f_x].type = "VARIABLE" /\ node[a].f_x # b
        /\ \E s \in Assignments :
           \E P \in {Invoke2(mul, World, a, b)} :
               /\ Done(P)
               /\ P.w.node[P.r].type = "ADD"
               /\ ValueOf(World, s, a) = Rat(1, 2, 0)
               /\ ValueOf(World, s, b) = Num(2)
               /\ ValueAt(P, s) = Rat(5, 2, 0)


(***************************************************************************)
(* The shape of negations and reciprocals.                                 *)
(***************************************************************************)
\* no Invert or Negate node has a Negate or constant operand, and
\* UNREACHABLE was not executed
Canonical(W) ==
    /\ W.fail # "UNREACHABLE"
    /\ \A i \in Id :
           W.node[i].type \in {"INVERT", "NEGATE"} =>
               W.node[W.node[i].f_x].type \notin {"NEGATE", "CONSTANT"}

\* the call ran to its end and left the heap canonical
CanonicalAfter(R) == ~R.w.cut => Canonical(R.w)

\* negations, reciprocals, products, quotients and powers of a constant and
\* the variables
ShapeConsts == {Num(2)}
ShapeUnary == {"invert", "cos"}
NextShape ==
    \/ ExprConst(ShapeConsts) \/ ExprVar(Vars) \/ ExprDrop
    \/ ExprUnary(ShapeUnary) \/ ExprNeg
    \/ ExprMul \/ ExprDiv \/ ExprPow
SpecShape == Init /\ [][NextShape]_vars

\* C28: no Invert or Negate node has a Negate or constant operand, in the
\* heap and after every function, sum, product, quotient, power and
\* derivative of held expressions, and UNREACHABLE is never executed
C28_CanonicalShape ==
    /\ Canonical(World)
    /\ \A p \in Held :
           /\ \A m \in Method : CanonicalAfter(call(World, m, p))
           /\ \A y \in Vars : CanonicalAfter(Derive(World, p, y))
           /\ \A q \in Held :
                  /\ CanonicalAfter(Invoke2(add, World, p, q))
                  /\ CanonicalAfter(Invoke2(mul, World, p, q))
                  /\ CanonicalAfter(Invoke2(pow, World, p, q))
                  /\ CanonicalAfter(Then(Invoke2(mul, World, p, q), "invert"))
                  /\ CanonicalAfter(Then(Invoke2(mul, World, p, q), "negate"))

\* a negation -x and a reciprocal 1/y are held: the reciprocal of -x is
\* the negation of 1/x, the negation of -x is x, and the negation of 1/y
\* is a Negate node over the Invert node
C28_NegationAndReciprocal ==
    \E p, q \in Held :
        /\ node[p].type = "NEGATE" /\ node[q].type = "INVERT"
        /\ \E R \in {call(World, "invert", p)} :
               /\ Done(R)
               /\ R.w.node[R.r].type = "NEGATE"
               /\ R.w.node[R.w.node[R.r].f_x].type = "INVERT"
               /\ R.w.node[R.w.node[R.r].f_x].f_x = node[p].f_x
        /\ \E R \in {call(World, "negate", p)} : Done(R) /\ R.r = node[p].f_x
        /\ \E R \in {call(World, "negate", q)} :
               /\ Done(R)
               /\ R.w.node[R.r].type = "NEGATE" /\ R.w.node[R.r].f_x = q


(***************************************************************************)
(* Powers with the exponents 1/2, 2, -1 and 1/3.                           *)
(***************************************************************************)
\* pow(e, n) for a number n
PowerOf(W, e, n) ==
    Let([c \in {constant(W, n)} |->
        IF Done(c) THEN Invoke2(pow, c.w, e, c.r) ELSE c])

\* pow(e, n) and the function m of e are the same expression
Shortcut(W, e, n, m) == SameTerm(PowerOf(W, e, n), call(W, m, e))

\* C29: pow(e, 1/2) is sqrt(e), pow(e, 2) is square(e), pow(e, -1) is
\* invert(e) and pow(e, 1/3) is cbrt(e), for every held expression e
C29_PowerShortcuts ==
    \A e \in Held :
        /\ Shortcut(World, e, Rat(1, 2, 0), "sqrt")
        /\ Shortcut(World, e, Num(2), "square")
        /\ Shortcut(World, e, Num(-1), "invert")
        /\ Shortcut(World, e, Rat(1, 3, 0), "cbrt")

\* the square of a variable x is held: pow(x^2, 1/2) is x, sqrt(x^2) is
\* abs(x)
C29_RootOfSquare ==
    \E e \in Held :
        /\ node[e].type = "SQUARE" /\ node[node[e].f_x].type = "VARIABLE"
        /\ \E R \in {PowerOf(World, e, Rat(1, 2, 0))} :
               Done(R) /\ R.r = node[e].f_x
        /\ \E S \in {call(World, "sqrt", e)} :
               /\ Done(S)
               /\ S.w.node[S.r].type = "ABS" /\ S.w.node[S.r].f_x = node[e].f_x


(***************************************************************************)
(* The conic radicals.                                                     *)
(***************************************************************************)
\* the call returned the function node t over x
IsFunctionOf(R, t, x) ==
    Done(R) => R.w.node[R.r].type = t /\ R.w.node[R.r].f_x = x

\* the call returned the reciprocal of the function node t over x
IsReciprocalOf(R, t, x) ==
    Done(R) => /\ R.w.node[R.r].type = "INVERT"
               /\ R.w.node[R.w.node[R.r].f_x].type = t
               /\ R.w.node[R.w.node[R.r].f_x].f_x = x

\* outer(inner(x))
Compose(W, outer, inner, x) == Then(call(W, inner, x), outer)

\* the numbers at which the radicals are compared
ConicInputs == {Num(0), Num(1), Num(-1), Num(2)}

\* C30: sinh(acosh(x)) is xconic(x), cosh(asinh(x)) is yconic(x),
\* cos(asin(x)) and sin(acos(x)) are zconic(x), cos(atan(x)) is
\* 1/yconic(x), cosh(atanh(x)) is 1/zconic(x), for a held variable x, and
\* the value of xconic is sqrt(x^2 - 1), of yconic sqrt(x^2 + 1) and of
\* zconic sqrt(1 - x^2)
C30_ConicRewrites ==
    /\ \A x \in Held :
           node[x].type = "VARIABLE" =>
               /\ IsFunctionOf(Compose(World, "sinh", "acosh", x), "XCONIC", x)
               /\ IsFunctionOf(Compose(World, "cosh", "asinh", x), "YCONIC", x)
               /\ IsFunctionOf(Compose(World, "cos", "asin", x), "ZCONIC", x)
               /\ IsFunctionOf(Compose(World, "sin", "acos", x), "ZCONIC", x)
               /\ IsReciprocalOf(Compose(World, "cos", "atan", x), "YCONIC", x)
               /\ IsReciprocalOf(Compose(World, "cosh", "atanh", x), "ZCONIC", x)
    /\ \A n \in ConicInputs :
           /\ cmath("XCONIC", n) = d_sqrt(d_sub(d_mul(n, n), Num(1)))
           /\ cmath("YCONIC", n) = d_sqrt(d_add(d_mul(n, n), Num(1)))
           /\ cmath("ZCONIC", n) = d_sqrt(d_sub(Num(1), d_mul(n, n)))

\* a variable x is held: sinh(acosh(x)) is the node zconic(x), whose value
\* at x = 2 is sqrt(1 - 4), not a number
C30_WrongRadical ==
    \E x \in Held :
        /\ node[x].type = "VARIABLE"
        /\ \E R \in {Compose(World, "sinh", "acosh", x)} :
               /\ Done(R)
               /\ R.w.node[R.r].type = "ZCONIC" /\ R.w.node[R.r].f_x = x
               /\ \E a \in Assignments : a[node[x].x] = Num(2) /\ isnan(ValueAt(R, a))

=============================================================================
